---- MODULE Spec2Model ----
(***************************************************************************)
(* A model of loom (morbsel/loom).                                          *)
(*                                                                         *)
(* The market-state mirror (crates/defi-entities, market_state.rs): the    *)
(* MarketState object, its in-memory EVM database (revm's CacheDB over an  *)
(* empty backend) and the operations that mutate it.  Every operation of   *)
(* MarketState is a pure operator on the database and an action of the     *)
(* state machine that applies it (Spec); SpecClone adds the clones that    *)
(* simulations take of it.                                                 *)
(*                                                                         *)
(* PoolWrapper (crates/defi-entities, pool.rs): its comparison, hash and   *)
(* clone (SpecPool).                                                       *)
(*                                                                         *)
(* The actors (crates/defi-actors): the nonce and balance fetcher and      *)
(* monitor (SpecAccounts), the block state worker (SpecBlockState) and the *)
(* market state preloader (SpecPreload), each worker a sequence of steps   *)
(* between its await points, with the guards it holds on the shared cells; *)
(* SpecActors is the three actors side by side.                            *)
(*                                                                         *)
(* start_loom (bin/loom_exex, loom.rs) with the protocol pool loader it    *)
(* starts (SpecLoom).                                                      *)
(*                                                                         *)
(* The evaluation benchmarks (bin/loom_anvil, benchmark.rs): rayon_run on  *)
(* a shared thread pool (SpecRayon) and the worker pool of tokio_run       *)
(* (SpecTokio).                                                            *)
(***************************************************************************)
EXTENDS Integers, Sequences, FiniteSets, TLC

(***************************************************************************)
(* Values.  An Option<T> is a sequence of length 0 (None) or 1 (Some(x)).  *)
(* A map (BTreeMap, HashMap) is a function whose domain is its key set.    *)
(* Addresses and slots are small naturals; maps are walked in key order.   *)
(***************************************************************************)
None == << >>

Some(x) == << x >>

EmptyMap == [k \in {} |-> 0]

Addrs == {1, 2}

Slots == {1, 2}

\* A Result<T, E> is Ok(v) or Err(e).
Ok(v) == << "Ok", v >>

Err(e) == << "Err", e >>

is_ok(r) == r[1] = "Ok"

\* The smallest key of a non-empty key set: the next key a BTreeMap iterator yields.
MinKey(S) == CHOOSE k \in S : \A j \in S : k <= j

\* Option::unwrap_or_default on a number.
unwrap_or_default(o) == IF o = None THEN 0 ELSE o[1]

\* keccak256 of a byte string, as an injective function of the bytes.
keccak(bytes) == << "keccak", bytes >>

KECCAK_EMPTY == keccak(<< >>)

\* B256::ZERO, the default code hash.
B256_ZERO == << "zero", << >> >>

\* Bytecode::default(): the empty bytecode (length 0).
BytecodeDefault == << >>

\* AccountInfo::default().
AccountInfoDefault ==
    [balance |-> 0, nonce |-> 0, code_hash |-> KECCAK_EMPTY, code |-> Some(BytecodeDefault)]

\* DbAccount::default(): marker None.
DbAccountDefault ==
    [info |-> AccountInfoDefault, account_state |-> "None", storage |-> EmptyMap]

\* DbAccount::new_not_existing().
DbAccountNotExisting ==
    [info |-> AccountInfoDefault, account_state |-> "NotExisting", storage |-> EmptyMap]

\* InMemoryDB::default(): no accounts, no contracts beyond the empty code.
EmptyDb == [accounts |-> EmptyMap, contracts |-> {}]

(***************************************************************************)
(* The database operations MarketState calls.                               *)
(***************************************************************************)
\* A backend that fails for one address.
basic_ref_failing(address) == IF address = 2 THEN Err("backend") ELSE Ok(None)

\* EmptyDB::basic_ref, the backend of the database: it holds no account and never fails.
basic_ref(address) == Ok(None)

\* CacheDB::load_account: an absent account is asked of the backend and, the backend
\* holding none, created NotExisting; when the backend fails the database stays as it is
\* and the call returns the error.
load_account(db, address) ==
    IF address \in DOMAIN db.accounts
    THEN db
    ELSE IF is_ok(basic_ref(address))
         THEN [db EXCEPT !.accounts = (address :> DbAccountNotExisting) @@ db.accounts]
         ELSE db

\* CacheDB::insert_contract: a non-empty code is hashed and stored; a zero hash
\* becomes KECCAK_EMPTY.  Returns the info as stored.
insert_contract_info(info) ==
    LET hashed ==
            IF info.code # None /\ Len(info.code[1]) > 0 /\ info.code_hash = KECCAK_EMPTY
            THEN [info EXCEPT !.code_hash = keccak(info.code[1])]
            ELSE info
    IN  IF hashed.code_hash = B256_ZERO
        THEN [hashed EXCEPT !.code_hash = KECCAK_EMPTY]
        ELSE hashed

\* CacheDB::insert_account_info: the info replaces the account's info; an absent
\* account is created with DbAccount::default() (marker None).
insert_account_info(db, address, info) ==
    LET stored == insert_contract_info(info)
        old == IF address \in DOMAIN db.accounts THEN db.accounts[address] ELSE DbAccountDefault
        contracts ==
            IF info.code # None /\ Len(info.code[1]) > 0
            THEN db.contracts \cup {stored.code_hash}
            ELSE db.contracts
    IN  [accounts |-> (address :> [old EXCEPT !.info = stored]) @@ db.accounts,
         contracts |-> contracts]

\* CacheDB::insert_account_storage: load_account, then storage.insert(slot, value).
insert_account_storage(db, address, slot, value) ==
    LET d == load_account(db, address)
    IN  IF address \in DOMAIN d.accounts
        THEN [d EXCEPT !.accounts[address].storage = (slot :> value) @@ @]
        ELSE d

\* MarketState::is_account.
is_account(db, address) == address \in DOMAIN db.accounts

\* MarketState::is_slot.
is_slot(db, address, slot) ==
    /\ address \in DOMAIN db.accounts
    /\ slot \in DOMAIN db.accounts[address].storage

\* CacheDB::storage(address, slot) for a slot that is present.
storage(db, address, slot) == db.accounts[address].storage[slot]

(***************************************************************************)
(* MarketState's operations, as functions from database to database.       *)
(* A diff entry (geth AccountState) is a record                             *)
(*   [balance: Option, nonce: Option, code: Option<bytes>, storage: map].  *)
(***************************************************************************)
\* A faulty info_is_applied: under only_new the marker sets are swapped, so tracked
\* accounts are overwritten and new ones skipped.
info_is_applied_swapped(account_state, insert, only_new) ==
    \/ insert
    \/ (account_state \in {"Touched", "StorageCleared"} /\ only_new)
    \/ (~only_new /\ account_state \in {"Touched", "StorageCleared"})

\* A faulty info_is_applied: with only_new unset, an account with marker None
\* counts as tracked.
info_is_applied_none_tracked(account_state, insert, only_new) ==
    \/ insert
    \/ (account_state \in {"NotExisting", "None"} /\ only_new)
    \/ (~only_new /\ account_state \in {"Touched", "StorageCleared", "None"})

\* The condition of apply_account_info_btree under which the info is overwritten.
info_is_applied(account_state, insert, only_new) ==
    \/ insert
    \/ (account_state \in {"NotExisting", "None"} /\ only_new)
    \/ (~only_new /\ account_state \in {"Touched", "StorageCleared"})

\* A faulty applied_code: only an empty code counts as the sentinel (< 1 for < 2).
applied_code_off_by_one(old_code, diff_code) ==
    IF diff_code = None
    THEN old_code
    ELSE IF Len(diff_code[1]) < 1 THEN old_code ELSE Some(diff_code[1])

\* The code apply_account_info_btree stores: the diff's code, unless the diff has
\* none or fewer than 2 bytes, and then the account's own code.
applied_code(old_code, diff_code) ==
    IF diff_code = None
    THEN old_code
    ELSE IF Len(diff_code[1]) < 2 THEN old_code ELSE Some(diff_code[1])

\* The marker apply_account_info_btree leaves on the account.
marker_after_apply == "Touched"

\* A faulty apply_account_info_btree: the marker is not set after the call.
apply_account_info_btree_no_marker(db, address, account_updated_state, insert, only_new) ==
    LET loaded == load_account(db, address)
        account == loaded.accounts[address]
        account_info ==
            [balance |-> unwrap_or_default(account_updated_state.balance),
             nonce |-> unwrap_or_default(account_updated_state.nonce),
             code_hash |-> KECCAK_EMPTY,
             code |-> applied_code(account.info.code, account_updated_state.code)]
    IN  IF info_is_applied(account.account_state, insert, only_new)
        THEN insert_account_info(loaded, address, account_info)
        ELSE loaded

\* A faulty apply_account_info_btree: the marker it tests is that of the first
\* account of the database, not that of the account it updates.
apply_account_info_btree_first_marker(db, address, account_updated_state, insert, only_new) ==
    LET loaded == load_account(db, address)
        account == loaded.accounts[address]
        first == loaded.accounts[MinKey(DOMAIN loaded.accounts)]
        account_info ==
            [balance |-> unwrap_or_default(account_updated_state.balance),
             nonce |-> unwrap_or_default(account_updated_state.nonce),
             code_hash |-> KECCAK_EMPTY,
             code |-> applied_code(account.info.code, account_updated_state.code)]
        written ==
            IF info_is_applied(first.account_state, insert, only_new)
            THEN insert_account_info(loaded, address, account_info)
            ELSE loaded
    IN  [written EXCEPT !.accounts[address].account_state = marker_after_apply]

\* A faulty apply_account_info_btree: a balance or nonce the diff entry lacks keeps the
\* value the account had.
apply_account_info_btree_keep_missing(db, address, account_updated_state, insert, only_new) ==
    LET loaded == load_account(db, address)
        account == loaded.accounts[address]
        account_info ==
            [balance |-> IF account_updated_state.balance = None THEN account.info.balance
                         ELSE account_updated_state.balance[1],
             nonce |-> IF account_updated_state.nonce = None THEN account.info.nonce
                       ELSE account_updated_state.nonce[1],
             code_hash |-> KECCAK_EMPTY,
             code |-> applied_code(account.info.code, account_updated_state.code)]
        written ==
            IF info_is_applied(account.account_state, insert, only_new)
            THEN insert_account_info(loaded, address, account_info)
            ELSE loaded
    IN  IF address \in DOMAIN loaded.accounts
        THEN [written EXCEPT !.accounts[address].account_state = marker_after_apply]
        ELSE loaded

\* MarketState::apply_account_info_btree; an account that cannot be loaded is skipped.
apply_account_info_btree(db, address, account_updated_state, insert, only_new) ==
    LET loaded == load_account(db, address)
        account == loaded.accounts[address]
        account_info ==
            [balance |-> unwrap_or_default(account_updated_state.balance),
             nonce |-> unwrap_or_default(account_updated_state.nonce),
             code_hash |-> KECCAK_EMPTY,
             code |-> applied_code(account.info.code, account_updated_state.code)]
        written ==
            IF info_is_applied(account.account_state, insert, only_new)
            THEN insert_account_info(loaded, address, account_info)
            ELSE loaded
    IN  IF address \in DOMAIN loaded.accounts
        THEN [written EXCEPT !.accounts[address].account_state = marker_after_apply]
        ELSE loaded

\* A faulty slot_is_written: with both flags unset absent slots are written too.
slot_is_written_absent_too(present, insert, only_new) ==
    \/ insert
    \/ ~only_new
    \/ (~present /\ only_new)

\* A faulty slot_is_written: only_new writes every slot, present or not.
slot_is_written_only_new_all(present, insert, only_new) ==
    \/ insert
    \/ (present /\ ~only_new)
    \/ only_new

\* Whether apply_account_storage writes a slot of the diff, given the slot's
\* presence in the account before the call.
slot_is_written(present, insert, only_new) ==
    \/ insert
    \/ (present /\ ~only_new)
    \/ (~present /\ only_new)

\* The loop of apply_account_storage over the diff's slots in key order; `account`
\* is the clone of the account taken before the loop (unused when insert is set).
RECURSIVE storage_loop(_, _, _, _, _, _, _)
storage_loop(db, address, account, diff, todo, insert, only_new) ==
    IF todo = {}
    THEN db
    ELSE LET slot == MinKey(todo)
             present == slot \in DOMAIN account.storage
             next ==
                 IF slot_is_written(present, insert, only_new)
                 THEN insert_account_storage(db, address, slot, diff[slot])
                 ELSE db
         IN  storage_loop(next, address, account, diff, todo \ {slot}, insert, only_new)

\* MarketState::apply_account_storage.
apply_account_storage(db, address, acc_state, insert, only_new) ==
    IF insert
    THEN storage_loop(db, address, DbAccountDefault, acc_state.storage,
                      DOMAIN acc_state.storage, TRUE, only_new)
    ELSE LET loaded == load_account(db, address)
         IN  IF address \in DOMAIN loaded.accounts
             THEN storage_loop(loaded, address, loaded.accounts[address],
                               acc_state.storage, DOMAIN acc_state.storage, FALSE, only_new)
             ELSE loaded

\* One update record of apply_state_update: its accounts in address order, each
\* through apply_account_info_btree and then apply_account_storage.
RECURSIVE apply_record(_, _, _, _, _)
apply_record(db, update_record, todo, insert, only_new) ==
    IF todo = {}
    THEN db
    ELSE LET address == MinKey(todo)
             acc_state == update_record[address]
             info_done == apply_account_info_btree(db, address, acc_state, insert, only_new)
             both_done == apply_account_storage(info_done, address, acc_state, insert, only_new)
         IN  apply_record(both_done, update_record, todo \ {address}, insert, only_new)

\* MarketState::apply_state_update: the records of the vector in order.
RECURSIVE apply_state_update(_, _, _, _)
apply_state_update(db, update_vec, insert, only_new) ==
    IF update_vec = << >>
    THEN db
    ELSE apply_state_update(
             apply_record(db, Head(update_vec), DOMAIN Head(update_vec), insert, only_new),
             Tail(update_vec), insert, only_new)

\* Whether apply_state_update panics: without insert, apply_account_storage unwraps the
\* load of each account the update names, and an account is absent when it is reached
\* exactly when it was absent before the call and the backend fails for it.
apply_state_update_panics(db, update_vec, insert) ==
    LET unwrap_panics(address) ==
            address \notin DOMAIN load_account(db, address).accounts
    IN  /\ ~insert
        /\ \E i \in 1..Len(update_vec) : \E address \in DOMAIN update_vec[i] :
               unwrap_panics(address)

\* A faulty merge_cells: a cell is written only when it is absent locally.
RECURSIVE merge_cells_absent_only(_, _, _, _)
merge_cells_absent_only(db, address, cells, todo) ==
    IF todo = {}
    THEN db
    ELSE LET cell == MinKey(todo)
             next == IF ~is_slot(db, address, cell)
                     THEN insert_account_storage(db, address, cell, cells[cell])
                     ELSE db
         IN  merge_cells_absent_only(next, address, cells, todo \ {cell})

\* The cells of one account of `other` in merge_db, in key order.
RECURSIVE merge_cells(_, _, _, _)
merge_cells(db, address, cells, todo) ==
    IF todo = {}
    THEN db
    ELSE LET cell == MinKey(todo)
             differs == \/ ~is_slot(db, address, cell)
                        \/ storage(db, address, cell) # cells[cell]
             next == IF differs
                     THEN insert_account_storage(db, address, cell, cells[cell])
                     ELSE db
         IN  merge_cells(next, address, cells, todo \ {cell})

\* A faulty merge_db: the account info of `other` is inserted for local accounts too.
RECURSIVE merge_accounts_all_infos(_, _, _)
merge_accounts_all_infos(db, other, todo) ==
    IF todo = {}
    THEN db
    ELSE LET address == MinKey(todo)
             account == other.accounts[address]
             with_info == insert_account_info(db, address, account.info)
             with_cells == merge_cells(with_info, address, account.storage,
                                       DOMAIN account.storage)
         IN  merge_accounts_all_infos(with_cells, other, todo \ {address})

\* The accounts of `other` in merge_db.
RECURSIVE merge_accounts(_, _, _)
merge_accounts(db, other, todo) ==
    IF todo = {}
    THEN db
    ELSE LET address == MinKey(todo)
             account == other.accounts[address]
             with_info == IF ~is_account(db, address)
                          THEN insert_account_info(db, address, account.info)
                          ELSE db
             with_cells == merge_cells(with_info, address, account.storage,
                                       DOMAIN account.storage)
         IN  merge_accounts(with_cells, other, todo \ {address})

\* MarketState::merge_db.
merge_db(db, other) == merge_accounts(db, other, DOMAIN other.accounts)

\* MarketState::update_account_storage: only a slot that is present is written.
update_account_storage(db, account, slot, value) ==
    IF is_slot(db, account, slot)
    THEN insert_account_storage(db, account, slot, value)
    ELSE db

\* The slots of one account in add_state, in key order.
RECURSIVE add_slots(_, _, _, _)
add_slots(db, address, diff, todo) ==
    IF todo = {}
    THEN db
    ELSE LET slot == MinKey(todo)
         IN  add_slots(insert_account_storage(db, address, slot, diff[slot]),
                       address, diff, todo \ {slot})

\* A faulty add_state: code shorter than 2 bytes keeps the stored code, as it does in
\* apply_account_info_btree.
RECURSIVE add_accounts_code_sentinel(_, _, _)
add_accounts_code_sentinel(db, state, todo) ==
    IF todo = {}
    THEN db
    ELSE LET address == MinKey(todo)
             account_state == state[address]
             old_code == IF address \in DOMAIN db.accounts
                         THEN db.accounts[address].info.code ELSE None
             hex_code == applied_code(old_code, account_state.code)
             account_info ==
                 [balance |-> unwrap_or_default(account_state.balance),
                  nonce |-> unwrap_or_default(account_state.nonce),
                  code_hash |-> IF hex_code # None THEN KECCAK_EMPTY ELSE B256_ZERO,
                  code |-> hex_code]
             with_info == insert_account_info(db, address, account_info)
         IN  add_accounts_code_sentinel(
                 add_slots(with_info, address, account_state.storage,
                           DOMAIN account_state.storage),
                 state, todo \ {address})

\* The accounts of the state in add_state.
RECURSIVE add_accounts(_, _, _)
add_accounts(db, state, todo) ==
    IF todo = {}
    THEN db
    ELSE LET address == MinKey(todo)
             account_state == state[address]
             hex_code == account_state.code
             account_info ==
                 [balance |-> unwrap_or_default(account_state.balance),
                  nonce |-> unwrap_or_default(account_state.nonce),
                  code_hash |-> IF hex_code # None THEN KECCAK_EMPTY ELSE B256_ZERO,
                  code |-> hex_code]
             with_info == insert_account_info(db, address, account_info)
         IN  add_accounts(add_slots(with_info, address, account_state.storage,
                                    DOMAIN account_state.storage),
                          state, todo \ {address})

\* MarketState::add_state.
add_state(db, state) == add_accounts(db, state, DOMAIN state)

\* What add_state returns: Ok(()), unless the unwrap() of an insert_account_storage panics,
\* which takes a slot of an account that cannot be loaded right after its info was
\* inserted.
add_state_returns(db, state) ==
    LET unwrap_panics(address) ==
            LET with_info == insert_account_info(db, address, AccountInfoDefault)
            IN  address \notin DOMAIN load_account(with_info, address).accounts
    IN  IF \E address \in DOMAIN state :
              DOMAIN state[address].storage # {} /\ unwrap_panics(address)
        THEN << "panicked" >>
        ELSE Ok(<< >>)

\* MarketState::fetch_state up to its first await: the account is loaded, an absent one is
\* created NotExisting.
fetch_state_load(db, account) == load_account(db, account)

\* fetch_state after client.get_balance(account).await: the balance takes the answer, a
\* failed request leaves it as it is.
fetch_state_balance(db, account, answer) ==
    IF is_ok(answer) THEN [db EXCEPT !.accounts[account].info.balance = answer[2]]
    ELSE db

\* fetch_state after client.get_storage_at(account, cell).await on one cell of the account:
\* the cell takes the answer, a failed request leaves it as it is.
fetch_state_cell(db, account, cell, answer) ==
    IF is_ok(answer) THEN [db EXCEPT !.accounts[account].storage[cell] = answer[2]]
    ELSE db

\* MarketState::is_force_insert.
is_force_insert(force_insert, address) == address \in force_insert

\* MarketState::is_read_only_cell.
is_read_only_cell(read_only, address, cell) ==
    /\ address \in DOMAIN read_only
    /\ cell \in read_only[address]

\* MarketState::disable_cell: the cell joins the address's set, created if absent.
disable_cell(read_only, address, cell) ==
    LET old == IF address \in DOMAIN read_only THEN read_only[address] ELSE {}
    IN  (address :> (old \cup {cell})) @@ read_only

\* MarketState::disable_cell_vec: disable_cell for each cell of the vector, in order.
RECURSIVE disable_cell_vec(_, _, _)
disable_cell_vec(read_only, address, cells) ==
    IF cells = << >> THEN read_only
    ELSE disable_cell_vec(disable_cell(read_only, address, Head(cells)), address, Tail(cells))

(***************************************************************************)
(* The inputs the operations are called with.                               *)
(***************************************************************************)
\* The most operations applied to one MarketState.
MaxOps == 2

Entry(b, n, c, s) == [balance |-> b, nonce |-> n, code |-> c, storage |-> s]

\* Diff entries: with and without balance, nonce and code; code of 1 byte and of
\* 2 bytes; storage maps that overlap in slot 1 with different values.
DiffEntries ==
    { Entry(Some(100), None, None, 1 :> 10),
      Entry(Some(200), None, None, (1 :> 20) @@ (2 :> 30)),
      Entry(None, Some(1), Some(<< 7 >>), 2 :> 10),
      Entry(Some(200), Some(1), Some(<< 1, 2 >>), EmptyMap) }

\* The diff entries of scenario S1: the account it starts from and the diff it applies.
S1Start == Entry(Some(100), None, None, 1 :> 10)

S1Diff == Entry(Some(200), None, None, (1 :> 20) @@ (2 :> 30))

\* Update records (BTreeMap<Address, AccountState>) naming one account or both.
SingleRecords == { a :> e : a \in Addrs, e \in DiffEntries }

PairRecords == { (1 :> e) @@ (2 :> S1Diff) : e \in DiffEntries }

Records == SingleRecords \cup PairRecords

\* Update vectors: one record, or two records that name the same account.
UpdateVecs ==
    { << r >> : r \in Records }
        \cup { << 1 :> e1, 1 :> e2 >> : e1 \in {S1Start, S1Diff}, e2 \in {S1Start, S1Diff} }

\* The value written by update_account_storage: one that no diff entry holds.
Vals == {40}

\* An account as an EVM commit leaves it after its storage was cleared.
ClearedDb ==
    [accounts |-> 1 :> [info |-> [AccountInfoDefault EXCEPT !.balance = 100],
                        account_state |-> "StorageCleared",
                        storage |-> EmptyMap],
     contracts |-> {}]

\* What the provider answers to a request of fetch_state.  Each request takes an answer
\* of its own: the value the node holds for the account or the cell asked for (balances
\* 300 and 301, cell values 50 and 60), or an error.
FetchAnswers ==
    [get_balance |-> [account \in Addrs |-> { Ok(299 + account), Err("rpc") }],
     get_storage_at |-> [cell \in Slots |-> { Ok(40 + 10 * cell), Err("rpc") }]]

\* The vectors disable_cell_vec is called with.
CellVecs == { << >>, << 1, 2 >>, << 2, 2 >> }

\* The orders a HashMap may hand out its keys in.
KeyOrders(S) ==
    { order \in [1..Cardinality(S) -> S] :
        \A i, j \in 1..Cardinality(S) : order[i] = order[j] => i = j }

\* The databases MarketState::new is called with.
InitDbs ==
    { EmptyDb,
      ClearedDb,
      add_state(EmptyDb, 1 :> S1Start),
      apply_state_update(EmptyDb, << 1 :> Entry(Some(100), Some(1), Some(<< 1, 2 >>), 1 :> 10) >>,
                         TRUE, FALSE) }

\* The databases merge_db is called with: results of simulations on a fresh database.
OtherDbs ==
    { add_state(EmptyDb, r) : r \in SingleRecords \cup { (1 :> S1Diff) @@ (2 :> S1Diff) } }

(***************************************************************************)
(* The state machine: one MarketState and the operations applied to it.    *)
(***************************************************************************)
VARIABLES
    state_db,               \* MarketState.state_db
    force_insert_accounts,  \* MarketState.force_insert_accounts (its key set)
    read_only_cells,        \* MarketState.read_only_cells
    last,                   \* the last call: its name, arguments and the database before it,
                            \* and for an async call the await it is at
    steps                   \* the number of calls made, those a call makes itself included

\* The live MarketState and the copies simulations work on.
VARIABLES
    heap,                   \* the MarketState values in memory, by the place they are stored at
    live,                   \* the place of the live MarketState
    sim,                    \* the places of the simulations' MarketStates
    sim_last,               \* the last call: its name, its target and the memory before it
    sim_steps               \* the number of mutating calls made

\* Two PoolWrapper values and the last operation on them.
VARIABLES
    wrappers,               \* the pair of PoolWrapper values w1, w2
    pool_result             \* the last operation on them and what it returned

\* The workers of the actors, the guards they hold on the shared cells and what they await.
VARIABLES
    pc,                     \* for each worker the statement it is at
    guards,                 \* the read and write guards held on the shared cells
    lock_log                \* the last guard taken: by whom, on what, and what its taker held

\* The nonce and balance actor: its two cells, its channel and its workers' locals.
VARIABLES
    accounts_state,         \* AccountNonceAndBalanceState: address -> nonce and ETH balance
    block_history,          \* BlockHistory: block hash -> entry
    market_events,          \* the monitor's subscription: the messages waiting, those lost
    market_events_closed,   \* every sender of the market events channel is gone
    mon,                    \* locals of the monitor worker
    fet,                    \* locals of the fetcher worker
    acct_log                \* the last write to accounts_state: by whom, for what, the state before

\* The block state actor: its channels and its worker's locals.
VARIABLES
    block_hashes,           \* the worker's subscription: the hashes waiting, those lost
    block_hashes_closed,    \* every sender of the block hash channel is gone
    bsw,                    \* locals of the block state worker
    traced,                 \* the received hashes whose trace succeeded, with the trace, in order
    published               \* the calls of sender.send: the message and the answer, in order

\* The market state preloader: the signers' cell and the locals of preload_market_state.
VARIABLES
    signers,                \* TxSigners: what get_signer_by_index answers for each index
    pre                     \* locals of preload_market_state and what start returned

\* start_loom and the protocol pool loader it starts.
VARIABLES
    topology,               \* TopologyConfig: the encoders by name, whether influxdb is set
    loom,                   \* locals of start_loom, the actors started and what it returned
    market,                 \* Market: the pools registered
    loader                  \* ProtocolPoolLoaderActor: its accessors, its task and the result

\* The evaluation benchmarks: the pool evaluated, the channels and the tasks.
VARIABLES
    bench,                  \* the pool under evaluation and the function that runs
    requests,               \* the inputs waiting: in_vec (rayon_run), request channel (tokio_run)
    evaluators,             \* the closures running on the pool (rayon_run), the workers (tokio_run)
    results,                \* the result channels, with what has been sent on them
    collectors              \* the tasks that send the inputs and count the results

msVars == << state_db, force_insert_accounts, read_only_cells, last, steps >>

bsVars == << block_hashes, block_hashes_closed, bsw, traced, published >>

preVars == << signers, pre >>

lockVars == << pc, guards, lock_log >>

acctVars == << accounts_state, block_history, market_events, market_events_closed,
               mon, fet, acct_log >>

simVars == << heap, live, sim, sim_last, sim_steps >>

poolVars == << wrappers, pool_result >>

loomVars == << topology, loom, market, loader >>

benchVars == << bench, requests, evaluators, results, collectors >>

vars == << msVars, simVars, poolVars, lockVars, acctVars, bsVars, preVars, loomVars,
          benchVars >>

\* Everything but the MarketState under test.
notMs == << simVars, poolVars, lockVars, acctVars, bsVars, preVars, loomVars, benchVars >>

\* Everything but the clones.
notSim == << msVars, poolVars, lockVars, acctVars, bsVars, preVars, loomVars, benchVars >>

\* Everything but the wrappers.
notPool == << msVars, simVars, lockVars, acctVars, bsVars, preVars, loomVars, benchVars >>

\* Everything but the nonce and balance actor.
notAcct == << msVars, simVars, poolVars, bsVars, preVars, loomVars, benchVars >>

\* Everything the preloader leaves alone.
notPre == << force_insert_accounts, read_only_cells, last, steps, simVars, poolVars,
             acctVars, bsVars, loomVars, benchVars >>

\* Everything but start_loom and the protocol pool loader.
notLoom == << msVars, simVars, poolVars, lockVars, acctVars, bsVars, preVars, benchVars >>

\* Everything but the block state actor.
notBs == << msVars, simVars, poolVars, acctVars, preVars, loomVars, benchVars >>

\* A subscription to a Broadcaster: the messages the channel retains for the receiver, and
\* the number of messages sent since the receiver's position that the channel has
\* overwritten.
Subscription(queue, lost) == [queue |-> queue, lost |-> lost]

\* No MarketState is under test.
MsIdle ==
    /\ state_db = EmptyDb
    /\ force_insert_accounts = {}
    /\ read_only_cells = EmptyMap
    /\ last = [op |-> "none"]
    /\ steps = 0

\* No simulation is under test.
SimIdle ==
    /\ heap = EmptyMap
    /\ live = 0
    /\ sim = {}
    /\ sim_last = [op |-> "none"]
    /\ sim_steps = 0

\* The workers of the model.
Workers == {"preloader", "fetcher", "monitor", "block_state"}

\* No worker has been spawned.
NoWorkers ==
    /\ pc = [w \in Workers |-> "not_started"]
    /\ guards = {}
    /\ lock_log = [worker |-> "none"]

\* The nonce and balance actor does not run.
AcctIdle ==
    /\ accounts_state = EmptyMap
    /\ block_history = EmptyMap
    /\ market_events = Subscription(<< >>, 0)
    /\ market_events_closed = FALSE
    /\ mon = [msg |-> None]
    /\ fet = [rounds |-> 0]
    /\ acct_log = [worker |-> "none"]

\* The block state actor does not run.
BsIdle ==
    /\ block_hashes = Subscription(<< >>, 0)
    /\ block_hashes_closed = FALSE
    /\ bsw = [msg |-> None]
    /\ traced = << >>
    /\ published = << >>

\* The preloader does not run.
PreIdle ==
    /\ signers = << >>
    /\ pre = [result |-> None, failures |-> {}]

\* start_loom has not been called.
LoomIdle ==
    /\ topology = [encoders |-> EmptyMap]
    /\ loom = [pc |-> "not_started"]
    /\ market = {}
    /\ loader = [task |-> "none"]

\* No benchmark runs.
BenchIdle ==
    /\ bench = [run |-> "none"]
    /\ requests = << >>
    /\ evaluators = << >>
    /\ results = << >>
    /\ collectors = << >>

\* Everything but the benchmarks.
notBench == << msVars, simVars, poolVars, lockVars, acctVars, bsVars, preVars, loomVars >>

\* No PoolWrapper is under test.
PoolIdle ==
    /\ wrappers = << >>
    /\ pool_result = [op |-> "none"]

\* MarketState::new(db).
Init ==
    /\ state_db \in InitDbs
    /\ force_insert_accounts = {}
    /\ read_only_cells = EmptyMap
    /\ last = [op |-> "new", pre |-> state_db, args |-> [db |-> state_db]]
    /\ steps = 0
    /\ SimIdle
    /\ PoolIdle
    /\ NoWorkers
    /\ AcctIdle
    /\ BsIdle
    /\ PreIdle
    /\ LoomIdle
    /\ BenchIdle

\* The last call is an async one that is suspended at an await: it holds &mut self, so no
\* other call is made on the MarketState until it returns.
Suspended ==
    /\ last.op \in {"fetch_state", "fetch_all_states"}
    /\ last.at # "returned"

\* The caller may make a call.
MayCall == steps < MaxOps /\ ~Suspended

ApplyStateUpdate ==
    /\ MayCall
    /\ \E update_vec \in UpdateVecs, insert \in BOOLEAN, only_new \in BOOLEAN :
          /\ state_db' = apply_state_update(state_db, update_vec, insert, only_new)
          /\ last' = [op |-> "apply_state_update", pre |-> state_db,
                      args |-> [update_vec |-> update_vec, insert |-> insert,
                                only_new |-> only_new],
                      returned |-> ~apply_state_update_panics(state_db, update_vec, insert)]
    /\ steps' = steps + 1
    /\ UNCHANGED << force_insert_accounts, read_only_cells >>
    /\ UNCHANGED notMs

\* A call of apply_account_info_btree on its own (the method is public), with the diff
\* of S1 for either address and every flag pair.
ApplyAccountInfoBtree ==
    /\ MayCall
    /\ \E address \in Addrs, account_updated_state \in {S1Diff},
          insert \in BOOLEAN, only_new \in BOOLEAN :
          /\ state_db' = apply_account_info_btree(state_db, address, account_updated_state,
                                                   insert, only_new)
          /\ last' = [op |-> "apply_account_info_btree", pre |-> state_db,
                      args |-> [address |-> address, acc_state |-> account_updated_state,
                                insert |-> insert, only_new |-> only_new]]
    /\ steps' = steps + 1
    /\ UNCHANGED << force_insert_accounts, read_only_cells >>
    /\ UNCHANGED notMs

\* A call of apply_account_storage on its own (the method is public), with the diff of
\* S1 for either address and every flag pair.  Without insert it unwraps the load of
\* the account, so it returns only when the account can be loaded.
ApplyAccountStorage ==
    /\ MayCall
    /\ \E address \in Addrs, acc_state \in {S1Diff},
          insert \in BOOLEAN, only_new \in BOOLEAN :
          /\ state_db' = apply_account_storage(state_db, address, acc_state, insert, only_new)
          /\ last' = [op |-> "apply_account_storage", pre |-> state_db,
                      args |-> [address |-> address, acc_state |-> acc_state,
                                insert |-> insert, only_new |-> only_new],
                      returned |-> insert
                                     \/ address \in DOMAIN load_account(state_db, address).accounts]
    /\ steps' = steps + 1
    /\ UNCHANGED << force_insert_accounts, read_only_cells >>
    /\ UNCHANGED notMs

MergeDb ==
    /\ MayCall
    /\ \E other \in OtherDbs :
          /\ state_db' = merge_db(state_db, other)
          /\ last' = [op |-> "merge_db", pre |-> state_db, args |-> [other |-> other]]
    /\ steps' = steps + 1
    /\ UNCHANGED << force_insert_accounts, read_only_cells >>
    /\ UNCHANGED notMs

UpdateAccountStorage ==
    /\ MayCall
    /\ \E account \in Addrs, slot \in Slots, value \in Vals :
          /\ state_db' = update_account_storage(state_db, account, slot, value)
          /\ last' = [op |-> "update_account_storage", pre |-> state_db,
                      args |-> [account |-> account, slot |-> slot, value |-> value]]
    /\ steps' = steps + 1
    /\ UNCHANGED << force_insert_accounts, read_only_cells >>
    /\ UNCHANGED notMs

AddState ==
    /\ MayCall
    /\ \E state \in Records :
          /\ state_db' = add_state(state_db, state)
          /\ last' = [op |-> "add_state", pre |-> state_db, args |-> [state |-> state],
                      returned |-> add_state_returns(state_db, state)]
    /\ steps' = steps + 1
    /\ UNCHANGED << force_insert_accounts, read_only_cells >>
    /\ UNCHANGED notMs

\* An async call of fetch_state or fetch_all_states: the await it is at, the account it
\* is fetching, the cells of that account still to ask for, the accounts still to fetch.
FetchCall(op, before, args, at, account, todo, addresses) ==
    [op |-> op, pre |-> before, args |-> args, at |-> at, account |-> account, todo |-> todo,
     addresses |-> addresses]

\* The call after it has finished with an account: fetch_all_states goes on to the next
\* address of its vector, loads it and asks for its balance; with no address left the call
\* returns Ok(()).
fetch_next_account(call) ==
    IF call.addresses = << >>
    THEN [call EXCEPT !.at = "returned", !.account = None, !.todo = {}]
    ELSE [call EXCEPT !.at = "get_balance", !.account = Head(call.addresses), !.todo = {},
                      !.addresses = Tail(call.addresses)]

\* The database when the call goes on to its next account.
fetch_next_db(db, call) ==
    IF call.addresses = << >> THEN db ELSE fetch_state_load(db, Head(call.addresses))

\* The calls made when the call goes on to its next account: one of fetch_state.
fetch_next_calls(call) == IF call.addresses = << >> THEN 0 ELSE 1

\* fetch_state(account, client) is called: the account is loaded and the call is suspended
\* at client.get_balance(account).await.
FetchState ==
    /\ MayCall
    /\ \E account \in Addrs :
          /\ state_db' = fetch_state_load(state_db, account)
          /\ last' = FetchCall("fetch_state", state_db, [account |-> account],
                               "get_balance", account, {}, << >>)
    /\ steps' = steps + 1
    /\ UNCHANGED << force_insert_accounts, read_only_cells >>
    /\ UNCHANGED notMs

\* fetch_all_states(client) is called: the addresses of the database are collected and
\* fetch_state is called for the first of them; with no account the call returns at once.
FetchAllStates ==
    /\ MayCall
    /\ \E addresses \in KeyOrders(DOMAIN state_db.accounts) :
          LET call == FetchCall("fetch_all_states", state_db, << >>, "collected", None, {},
                                addresses)
          IN  /\ state_db' = fetch_next_db(state_db, call)
              /\ last' = fetch_next_account(call)
              /\ steps' = steps + 1 + fetch_next_calls(call)
    /\ UNCHANGED << force_insert_accounts, read_only_cells >>
    /\ UNCHANGED notMs

\* client.get_balance(account).await answers: the balance is written, and the loop over
\* the account's storage begins; an account without cells is finished.
FetchGetBalance ==
    /\ Suspended
    /\ last.at = "get_balance"
    /\ \E answer \in FetchAnswers.get_balance[last.account] :
          LET written == fetch_state_balance(state_db, last.account, answer)
              cells == DOMAIN written.accounts[last.account].storage
          IN  IF cells = {}
              THEN /\ state_db' = fetch_next_db(written, last)
                   /\ last' = fetch_next_account(last)
                   /\ steps' = steps + fetch_next_calls(last)
              ELSE /\ state_db' = written
                   /\ last' = [last EXCEPT !.at = "get_storage_at", !.todo = cells]
                   /\ steps' = steps
    /\ UNCHANGED << force_insert_accounts, read_only_cells >>
    /\ UNCHANGED notMs

\* client.get_storage_at(account, cell).await answers for the next cell of storage.iter_mut(),
\* which hands out the cells in any order: the cell is written; after the last cell the
\* account is finished.
FetchGetStorageAt ==
    /\ Suspended
    /\ last.at = "get_storage_at"
    /\ \E cell \in last.todo :
       \E answer \in FetchAnswers.get_storage_at[cell] :
          LET written == fetch_state_cell(state_db, last.account, cell, answer)
          IN  IF last.todo = {cell}
              THEN /\ state_db' = fetch_next_db(written, last)
                   /\ last' = fetch_next_account(last)
                   /\ steps' = steps + fetch_next_calls(last)
              ELSE /\ state_db' = written
                   /\ last' = [last EXCEPT !.todo = @ \ {cell}]
                   /\ steps' = steps
    /\ UNCHANGED << force_insert_accounts, read_only_cells >>
    /\ UNCHANGED notMs

DisableCell ==
    /\ MayCall
    /\ \E address \in Addrs, cell \in Slots :
          /\ read_only_cells' = disable_cell(read_only_cells, address, cell)
          /\ last' = [op |-> "disable_cell", pre |-> state_db,
                      args |-> [address |-> address, cell |-> cell]]
    /\ steps' = steps + 1
    /\ UNCHANGED << state_db, force_insert_accounts >>
    /\ UNCHANGED notMs

DisableCellVec ==
    /\ MayCall
    /\ \E address \in Addrs, cells \in CellVecs :
          /\ read_only_cells' = disable_cell_vec(read_only_cells, address, cells)
          /\ last' = [op |-> "disable_cell_vec", pre |-> state_db,
                      args |-> [address |-> address, cells |-> cells]]
          /\ steps' = steps + 1 + Len(cells)
    /\ UNCHANGED << state_db, force_insert_accounts >>
    /\ UNCHANGED notMs

AddForceInsert ==
    /\ MayCall
    /\ \E address \in Addrs :
          /\ force_insert_accounts' = force_insert_accounts \cup {address}
          /\ last' = [op |-> "add_force_insert", pre |-> state_db,
                      args |-> [address |-> address]]
    /\ steps' = steps + 1
    /\ UNCHANGED << state_db, read_only_cells >>
    /\ UNCHANGED notMs

Next ==
    \/ ApplyStateUpdate
    \/ ApplyAccountInfoBtree
    \/ ApplyAccountStorage
    \/ MergeDb
    \/ UpdateAccountStorage
    \/ AddState
    \/ FetchState
    \/ FetchAllStates
    \/ FetchGetBalance
    \/ FetchGetStorageAt
    \/ DisableCell
    \/ DisableCellVec
    \/ AddForceInsert

Spec == Init /\ [][Next]_vars

(***************************************************************************)
(* What the properties below read off a database and the last call.        *)
(***************************************************************************)
\* The account as a reader sees it: an absent account reads as a fresh one.
AccountView(db, a) ==
    IF a \in DOMAIN db.accounts THEN db.accounts[a] ELSE DbAccountNotExisting

\* The stored value of a cell, None when the slot is absent.
SlotView(db, a, s) ==
    IF is_slot(db, a, s) THEN Some(db.accounts[a].storage[s]) ELSE None

\* Balance, nonce and code of an account.
InfoView(db, a) ==
    LET i == AccountView(db, a).info
    IN  [balance |-> i.balance, nonce |-> i.nonce, code |-> i.code]

LastIsApply == last.op = "apply_state_update"

\* The accounts an update vector names.
NamedAccounts(update_vec) ==
    UNION { DOMAIN update_vec[i] : i \in 1..Len(update_vec) }

\* The last call was apply_state_update with a single record.
LastIsSingleRecordApply == LastIsApply /\ Len(last.args.update_vec) = 1

\* The account is tracked: present with marker Touched or StorageCleared.
Tracked(db, a) ==
    /\ a \in DOMAIN db.accounts
    /\ db.accounts[a].account_state \in {"Touched", "StorageCleared"}

\* The first record of the vector that gives the slot s of account a, if any.
FirstValue(update_vec, a, s) ==
    LET hits == { i \in 1..Len(update_vec) :
                    a \in DOMAIN update_vec[i] /\ s \in DOMAIN update_vec[i][a].storage }
    IN  IF hits = {} THEN None ELSE Some(update_vec[MinKey(hits)][a].storage[s])

(***************************************************************************)
(* C1  Mirror idempotence.                                                  *)
(***************************************************************************)
\* C1 (as claimed): after apply_state_update(u, insert, only_new), under any flags,
\* applying the same update with the same flags again leaves the MarketState as it is.
C1_MirrorIdempotence ==
    LastIsApply =>
        apply_state_update(state_db, last.args.update_vec,
                           last.args.insert, last.args.only_new) = state_db

\* C1 (amended): applying the same update twice yields the same MarketState as
\* applying it once when insert is set, or only_new is set, or (both unset) every
\* account the update names was tracked (Touched or StorageCleared) before the call.
C1_IdempotentWhenTracked ==
    ( /\ LastIsApply
      /\ \/ last.args.insert
         \/ last.args.only_new
         \/ \A a \in NamedAccounts(last.args.update_vec) : Tracked(last.pre, a) )
    => apply_state_update(state_db, last.args.update_vec,
                          last.args.insert, last.args.only_new) = state_db

\* C1 witness: an update with both flags unset was applied to tracked accounts
\* and changed the database.
C1_Witness ==
    /\ LastIsApply
    /\ ~last.args.insert
    /\ ~last.args.only_new
    /\ \A a \in NamedAccounts(last.args.update_vec) : Tracked(last.pre, a)
    /\ state_db # last.pre

(***************************************************************************)
(* C3, C4  Scenario S1 (address 0xA is address 1).                          *)
(***************************************************************************)
\* The last call is S1's first step: account 1 held balance 100 and storage {1:10},
\* and the diff {1: balance 200, storage {1:20, 2:30}} was applied with both flags unset.
S1FirstStep ==
    /\ LastIsApply
    /\ 1 \in DOMAIN last.pre.accounts
    /\ last.pre.accounts[1].info.balance = 100
    /\ last.pre.accounts[1].storage = (1 :> 10)
    /\ last.args.update_vec = << 1 :> S1Diff >>
    /\ ~last.args.insert
    /\ ~last.args.only_new

\* C3 (as claimed): S1's first step leaves account 1 with balance 200 and
\* storage {1:20, 2:30}.
C3_S1FirstStepAsClaimed ==
    S1FirstStep =>
        /\ state_db.accounts[1].info.balance = 200
        /\ state_db.accounts[1].storage = ((1 :> 20) @@ (2 :> 30))

\* C3 (amended): S1's first step leaves account 1 with storage {1:20}, slot 2 is
\* not added, and the balance is 200 if the account was tracked (Touched or
\* StorageCleared) and stays 100 otherwise.
C3_S1FirstStep ==
    S1FirstStep =>
        /\ state_db.accounts[1].storage = (1 :> 20)
        /\ state_db.accounts[1].info.balance = IF Tracked(last.pre, 1) THEN 200 ELSE 100

\* C3 witness: S1's first step was made on a tracked account.
C3_Witness == S1FirstStep /\ Tracked(last.pre, 1)

\* The database after the same update is applied again with only_new set.
SecondStep == apply_state_update(state_db, last.args.update_vec, FALSE, TRUE)

\* The last call applied an update with both flags unset.
LastIsNeitherApply == LastIsApply /\ ~last.args.insert /\ ~last.args.only_new

\* C4 (as claimed): applying the diff with only_new set right after the same diff
\* was applied with both flags unset leaves the MarketState unchanged.
C4_S1SecondStepAsClaimed == LastIsNeitherApply => SecondStep = state_db

\* C4 (amended): that second application changes no account's balance, nonce,
\* code or marker and no slot that is present; it adds exactly the diff's slots
\* that are absent, each with the value of the first record that gives it.
C4_S1SecondStep ==
    LastIsNeitherApply =>
        /\ DOMAIN SecondStep.accounts = DOMAIN state_db.accounts
        /\ SecondStep.contracts = state_db.contracts
        /\ \A a \in DOMAIN state_db.accounts :
              /\ SecondStep.accounts[a].info = state_db.accounts[a].info
              /\ SecondStep.accounts[a].account_state = state_db.accounts[a].account_state
              /\ \A s \in Slots :
                    SlotView(SecondStep, a, s) =
                        IF is_slot(state_db, a, s)
                        THEN SlotView(state_db, a, s)
                        ELSE FirstValue(last.args.update_vec, a, s)

\* C4 witness: S1's first step was made and the second step adds slot 2 with 30.
C4_Witness ==
    /\ S1FirstStep
    /\ SlotView(state_db, 1, 2) = None
    /\ SlotView(SecondStep, 1, 2) = Some(30)

(***************************************************************************)
(* C2  Read-only cells.                                                     *)
(***************************************************************************)
\* C2: apply_state_update, under any update and flags, leaves every cell marked
\* read-only with disable_cell at the value it had before the call, so a cell
\* keeps the value it had when it was marked through any sequence of such calls.
C2_ReadOnlyCellsKept ==
    LastIsApply =>
        \A a \in Addrs, s \in Slots :
            is_read_only_cell(read_only_cells, a, s) =>
                SlotView(state_db, a, s) = SlotView(last.pre, a, s)

(***************************************************************************)
(* C5  Account-info policy matrix.                                          *)
(***************************************************************************)
\* The info apply_account_info_btree writes for a diff entry over an account.
InfoFromDiff(old, e) ==
    [balance |-> IF e.balance = None THEN 0 ELSE e.balance[1],
     nonce |-> IF e.nonce = None THEN 0 ELSE e.nonce[1],
     code |-> IF e.code # None /\ Len(e.code[1]) >= 2 THEN e.code ELSE old.code]

\* The cases of the matrix in which the info is overwritten.
MatrixApplies(marker, insert, only_new) ==
    CASE insert -> TRUE
      [] ~insert /\ only_new -> marker \in {"NotExisting", "None"}
      [] ~insert /\ ~only_new -> marker \in {"Touched", "StorageCleared"}

\* The info of account a after the last call is what the matrix gives for the diff entry
\* and the flags of the call: overwritten from the entry, or as it was.
InfoMatrixHolds(a, entry) ==
    InfoView(state_db, a) =
        IF MatrixApplies(AccountView(last.pre, a).account_state,
                         last.args.insert, last.args.only_new)
        THEN InfoFromDiff(InfoView(last.pre, a), entry)
        ELSE InfoView(last.pre, a)

\* C5: after apply_account_info_btree, called on its own or for each account of a
\* single-record update, the account's balance, nonce and code are overwritten from
\* the diff when insert is set, or only_new is set and the marker was NotExisting or
\* None, or only_new is unset and the marker was Touched or StorageCleared; in every
\* other case they are left unchanged.
C5_AccountInfoMatrix ==
    /\ LastIsSingleRecordApply =>
          \A a \in DOMAIN last.args.update_vec[1] :
              InfoMatrixHolds(a, last.args.update_vec[1][a])
    /\ last.op = "apply_account_info_btree" =>
          InfoMatrixHolds(last.args.address, last.args.acc_state)

\* C5 witness: with only_new unset, one call overwrote a Touched account and
\* skipped an account whose marker was None or NotExisting although the diff
\* differs from it.
C5_Witness ==
    /\ LastIsSingleRecordApply
    /\ ~last.args.insert
    /\ ~last.args.only_new
    /\ \E a \in DOMAIN last.args.update_vec[1] :
          /\ AccountView(last.pre, a).account_state = "Touched"
          /\ InfoView(state_db, a) # InfoView(last.pre, a)
    /\ \E a \in DOMAIN last.args.update_vec[1] :
          /\ AccountView(last.pre, a).account_state \in {"None", "NotExisting"}
          /\ InfoView(state_db, a) = InfoView(last.pre, a)
          /\ InfoFromDiff(InfoView(last.pre, a), last.args.update_vec[1][a])
                # InfoView(last.pre, a)

(***************************************************************************)
(* C6  Storage policy matrix.                                               *)
(***************************************************************************)
\* Slot s of account a after the last call is what the matrix gives for the diff's
\* storage and the flags of the call: the diff's value when written, else as it was.
StorageMatrixHolds(a, s, diff) ==
    LET present == is_slot(last.pre, a, s)
        written ==
            /\ s \in DOMAIN diff
            /\ CASE last.args.insert -> TRUE
                 [] ~last.args.insert /\ ~last.args.only_new -> present
                 [] ~last.args.insert /\ last.args.only_new -> ~present
    IN  SlotView(state_db, a, s) =
            IF written THEN Some(diff[s]) ELSE SlotView(last.pre, a, s)

\* C6: apply_account_storage, called on its own or for each account of a single-record
\* update, writes every slot of the diff when insert is set; with both flags unset
\* exactly the diff slots that were present; with only_new (insert unset) exactly the
\* diff slots that were absent; every other slot keeps its value.
C6_StorageMatrix ==
    /\ LastIsSingleRecordApply =>
          \A a \in DOMAIN last.args.update_vec[1], s \in Slots :
              StorageMatrixHolds(a, s, last.args.update_vec[1][a].storage)
    /\ (last.op = "apply_account_storage" /\ last.returned) =>
          \A a \in Addrs, s \in Slots :
              StorageMatrixHolds(a, s, IF a = last.args.address
                                       THEN last.args.acc_state.storage
                                       ELSE EmptyMap)

\* C6 witness: with both flags unset a call overwrote a present slot with a new
\* value and left an absent slot of the diff absent.
C6_Witness ==
    /\ LastIsSingleRecordApply
    /\ ~last.args.insert
    /\ ~last.args.only_new
    /\ \E a \in DOMAIN last.args.update_vec[1] :
          LET diff == last.args.update_vec[1][a].storage
          IN  /\ \E s \in DOMAIN diff :
                    /\ is_slot(last.pre, a, s)
                    /\ SlotView(last.pre, a, s) # Some(diff[s])
                    /\ SlotView(state_db, a, s) = Some(diff[s])
              /\ \E s \in DOMAIN diff :
                    /\ ~is_slot(last.pre, a, s)
                    /\ ~is_slot(state_db, a, s)

(***************************************************************************)
(* C7  Mirror commutativity under disjointness.                             *)
(***************************************************************************)
\* The update names accounts before those of the other update.  Of two updates that
\* share no account exactly one comes first, and "u1 then u2 equals u2 then u1" is one
\* equation for the pair, so it is checked once, at the call of the one that comes first.
ComesFirst(u1, u2) == MinKey(NamedAccounts(u1)) < MinKey(NamedAccounts(u2))

\* C7: for the update u1 just applied and every update u2 that names none of
\* u1's accounts, applying u1 then u2 yields the same MarketState as applying
\* u2 then u1, both with the flags of the call.
C7_CommuteWhenDisjoint ==
    LastIsApply =>
        \A u2 \in UpdateVecs :
            (/\ NamedAccounts(u2) \cap NamedAccounts(last.args.update_vec) = {}
             /\ ComesFirst(last.args.update_vec, u2)) =>
                apply_state_update(state_db, u2, last.args.insert, last.args.only_new)
                  = apply_state_update(
                        apply_state_update(last.pre, u2, last.args.insert, last.args.only_new),
                        last.args.update_vec, last.args.insert, last.args.only_new)

\* C7 witness: an update was applied and changed the database, and an update of
\* other accounts changes the result further.
C7_Witness ==
    /\ LastIsApply
    /\ state_db # last.pre
    /\ \E u2 \in UpdateVecs :
          /\ NamedAccounts(u2) \cap NamedAccounts(last.args.update_vec) = {}
          /\ ComesFirst(last.args.update_vec, u2)
          /\ apply_state_update(state_db, u2, last.args.insert, last.args.only_new) # state_db

(***************************************************************************)
(* C8  Forced-insert accounts.                                              *)
(***************************************************************************)
\* C8: for a single-record update applied with insert unset, every named account
\* registered with add_force_insert has its info overwritten from the diff and
\* every slot of the diff written, whatever its marker and the slots' presence.
C8_ForceInsertBypasses ==
    (LastIsSingleRecordApply /\ ~last.args.insert) =>
        \A a \in DOMAIN last.args.update_vec[1] :
            is_force_insert(force_insert_accounts, a) =>
                LET e == last.args.update_vec[1][a]
                IN  /\ InfoView(state_db, a) = InfoFromDiff(InfoView(last.pre, a), e)
                    /\ \A s \in DOMAIN e.storage : SlotView(state_db, a, s) = Some(e.storage[s])

(***************************************************************************)
(* C9  Code sentinel in apply.                                              *)
(***************************************************************************)
\* C9: when a single-record update overwrites an account's info, the account's
\* code becomes the diff's code if the diff carries code of at least 2 bytes, and
\* stays the account's code if the diff has no code or code shorter than 2 bytes.
C9_CodeSentinel ==
    LastIsSingleRecordApply =>
        \A a \in DOMAIN last.args.update_vec[1] :
            MatrixApplies(AccountView(last.pre, a).account_state,
                          last.args.insert, last.args.only_new) =>
                LET diff_code == last.args.update_vec[1][a].code
                    carries == diff_code # None /\ Len(diff_code[1]) >= 2
                IN  AccountView(state_db, a).info.code =
                        IF carries THEN diff_code ELSE AccountView(last.pre, a).info.code

\* C9 witness: a diff with a 1-byte code was applied to an account that holds
\* a 2-byte code; its balance and nonce were overwritten and its code kept.
C9_Witness ==
    /\ LastIsSingleRecordApply
    /\ \E a \in DOMAIN last.args.update_vec[1] :
          LET e == last.args.update_vec[1][a]
          IN  /\ MatrixApplies(AccountView(last.pre, a).account_state,
                               last.args.insert, last.args.only_new)
              /\ e.code # None
              /\ Len(e.code[1]) = 1
              /\ AccountView(last.pre, a).info.code = Some(<< 1, 2 >>)
              /\ AccountView(state_db, a).info.code = Some(<< 1, 2 >>)
              /\ AccountView(state_db, a).info.nonce # AccountView(last.pre, a).info.nonce

(***************************************************************************)
(* C10  merge_db postcondition.                                             *)
(***************************************************************************)
\* C10: after merge_db(other), every account of other that was absent locally is
\* present with other's account info, and every storage slot that occurs in
\* other has locally the value it has in other.
C10_MergeDbPost ==
    last.op = "merge_db" =>
        \A a \in DOMAIN last.args.other.accounts :
            /\ a \notin DOMAIN last.pre.accounts =>
                  /\ a \in DOMAIN state_db.accounts
                  /\ state_db.accounts[a].info = last.args.other.accounts[a].info
            /\ \A s \in DOMAIN last.args.other.accounts[a].storage :
                  SlotView(state_db, a, s) = Some(last.args.other.accounts[a].storage[s])

\* C10 witness: one merge_db inserted an account that was absent locally and
\* overwrote a local slot whose value differed from other's.
C10_Witness ==
    /\ last.op = "merge_db"
    /\ \E a \in DOMAIN last.args.other.accounts : a \notin DOMAIN last.pre.accounts
    /\ \E a \in DOMAIN last.args.other.accounts :
          \E s \in DOMAIN last.args.other.accounts[a].storage :
              /\ is_slot(last.pre, a, s)
              /\ SlotView(last.pre, a, s) # Some(last.args.other.accounts[a].storage[s])
              /\ SlotView(state_db, a, s) = Some(last.args.other.accounts[a].storage[s])

(***************************************************************************)
(* Clones of MarketState: the live value and the copies simulations take.  *)
(* The simulations themselves are not part of the sources at hand: that    *)
(* each of them works on a clone of the live value is taken from the      *)
(* description of the system; the clone is the derived Clone of the struct. *)
(***************************************************************************)
\* The number of mutating calls made on the live value and on the clones together.
MaxSimOps == 2

\* The number of simulations, each with a clone of its own.
MaxClones == 2

\* A MarketState value: the three fields of the struct.
MarketStateOf(db, force_insert, read_only) ==
    [state_db |-> db, force_insert_accounts |-> force_insert, read_only_cells |-> read_only]

\* MarketState::new(db).
new_market_state(db) == MarketStateOf(db, {}, EmptyMap)

\* The place a new value is stored at.
fresh_place(h) == Cardinality(DOMAIN h) + 1

\* A clone that copies no field and hands out the place of the original.
clone_market_state_shared(h, place) == [heap |-> h, place |-> place]

\* #[derive(Clone)] on MarketState: every field is an owned map and is copied into a new
\* value, stored at a place of its own.
clone_market_state(h, place) ==
    [heap |-> h @@ (fresh_place(h) :> MarketStateOf(h[place].state_db,
                                                     h[place].force_insert_accounts,
                                                     h[place].read_only_cells)),
     place |-> fresh_place(h)]

\* The mutating calls made on either value.
SimCalls ==
    { [op |-> "apply_state_update", update_vec |-> u, insert |-> i, only_new |-> FALSE] :
        u \in { << 1 :> S1Diff >>, << 2 :> Entry(None, Some(1), Some(<< 7 >>), 2 :> 10) >> },
        i \in BOOLEAN }
    \cup { [op |-> "apply_account_info_btree", address |-> 2, acc_state |-> S1Diff,
             insert |-> TRUE, only_new |-> FALSE] }
    \cup { [op |-> "apply_account_storage", address |-> 1, acc_state |-> S1Diff,
             insert |-> TRUE, only_new |-> FALSE] }
    \cup { [op |-> "add_state", state |-> 1 :> S1Start] }
    \cup { [op |-> "merge_db", other |-> add_state(EmptyDb, 2 :> S1Diff)] }
    \cup { [op |-> "update_account_storage", account |-> 2, slot |-> 1, value |-> 40] }
    \cup { [op |-> "disable_cell", address |-> 1, cell |-> 2] }
    \cup { [op |-> "add_force_insert", address |-> 2] }

\* The MarketState after one call.
call_market_state(ms, c) ==
    CASE c.op = "apply_state_update" ->
            [ms EXCEPT !.state_db = apply_state_update(@, c.update_vec, c.insert, c.only_new)]
      [] c.op = "apply_account_info_btree" ->
            [ms EXCEPT !.state_db = apply_account_info_btree(@, c.address, c.acc_state,
                                                             c.insert, c.only_new)]
      [] c.op = "apply_account_storage" ->
            [ms EXCEPT !.state_db = apply_account_storage(@, c.address, c.acc_state,
                                                          c.insert, c.only_new)]
      [] c.op = "add_state" ->
            [ms EXCEPT !.state_db = add_state(@, c.state)]
      [] c.op = "merge_db" ->
            [ms EXCEPT !.state_db = merge_db(@, c.other)]
      [] c.op = "update_account_storage" ->
            [ms EXCEPT !.state_db = update_account_storage(@, c.account, c.slot, c.value)]
      [] c.op = "disable_cell" ->
            [ms EXCEPT !.read_only_cells = disable_cell(@, c.address, c.cell)]
      [] c.op = "add_force_insert" ->
            [ms EXCEPT !.force_insert_accounts = @ \cup {c.address}]

\* The live MarketState is built and stored.
InitClone ==
    /\ \E db \in InitDbs : heap = 1 :> new_market_state(db)
    /\ live = 1
    /\ sim = {}
    /\ sim_last = [op |-> "new", target |-> 1, pre |-> heap]
    /\ sim_steps = 0
    /\ MsIdle
    /\ PoolIdle
    /\ NoWorkers
    /\ AcctIdle
    /\ BsIdle
    /\ PreIdle
    /\ LoomIdle
    /\ BenchIdle

\* A simulation takes its clone of the live value.
CloneForSimulation ==
    /\ Cardinality(sim) < MaxClones
    /\ LET c == clone_market_state(heap, live)
       IN  /\ heap' = c.heap
           /\ sim' = sim \cup {c.place}
           /\ sim_last' = [op |-> "clone", target |-> live, place |-> c.place,
                           pre |-> heap]
    /\ UNCHANGED << live, sim_steps >>
    /\ UNCHANGED notSim

\* A simulation mutates its clone.
MutateClone ==
    /\ sim_steps < MaxSimOps
    /\ \E place \in sim, c \in SimCalls :
          /\ heap' = [heap EXCEPT ![place] = call_market_state(@, c)]
          /\ sim_last' = [op |-> c.op, target |-> place, pre |-> heap]
    /\ sim_steps' = sim_steps + 1
    /\ UNCHANGED << live, sim >>
    /\ UNCHANGED notSim

\* A writer mutates the live value.
MutateLive ==
    /\ sim_steps < MaxSimOps
    /\ \E c \in SimCalls :
          /\ heap' = [heap EXCEPT ![live] = call_market_state(@, c)]
          /\ sim_last' = [op |-> c.op, target |-> live, pre |-> heap]
    /\ sim_steps' = sim_steps + 1
    /\ UNCHANGED << live, sim >>
    /\ UNCHANGED notSim

NextClone ==
    \/ CloneForSimulation
    \/ MutateClone
    \/ MutateLive

SpecClone == InitClone /\ [][NextClone]_vars

\* The last call mutated the value stored at the given place.
LastMutated(place) ==
    /\ sim_last.op \notin {"new", "clone", "none"}
    /\ sim_last.target = place

(***************************************************************************)
(* C11  Clone isolation.                                                    *)
(***************************************************************************)
\* C11: once a MarketState has been cloned, a mutating call on a clone leaves the live
\* value (database, force-insert set, read-only cells) and every other clone as they were,
\* a mutating call on the live value leaves every clone as it was, and taking a clone
\* leaves the live value and the earlier clones as they were and makes the new clone equal
\* to the live value.
C11_CloneIsolation ==
    /\ \A c \in sim :
          /\ LastMutated(c) =>
                \A p \in (sim \cup {live}) \ {c} : heap[p] = sim_last.pre[p]
          /\ LastMutated(live) => heap[c] = sim_last.pre[c]
    /\ sim_last.op = "clone" =>
          /\ \A p \in DOMAIN sim_last.pre : heap[p] = sim_last.pre[p]
          /\ sim_last.place \in sim \ DOMAIN sim_last.pre
          /\ heap[sim_last.place] = heap[live]

\* Two clones were taken and the last call mutated one of them: it differs from what it
\* was, from the live value and from the other clone, which differs from the live value
\* too.
C11_Witness ==
    /\ Cardinality(sim) = MaxClones
    /\ sim_steps = MaxSimOps
    /\ \E c \in sim :
          /\ LastMutated(c)
          /\ heap[c] # sim_last.pre[c]
          /\ heap[c] # heap[live]
          /\ \A other \in sim \ {c} : heap[other] # heap[c] /\ heap[other] # heap[live]

(***************************************************************************)
(* PoolWrapper: a shared pointer to a pool, compared by the pool's address. *)
(***************************************************************************)
\* The pool objects in memory, by the place a pointer to them holds.  Places 1 and 2 hold
\* two pools alike in everything, places 1 and 3 pools of two classes at one address.
PoolHeap ==
    << [class |-> "EmptyPool", address |-> 1],
       [class |-> "EmptyPool", address |-> 1],
       [class |-> "UniswapV3", address |-> 1],
       [class |-> "EmptyPool", address |-> 2],
       [class |-> "UniswapV3", address |-> 2],
       [class |-> "UniswapV3", address |-> 3] >>

\* PoolWrapper::new(pool).
new_pool_wrapper(pool) == [pool |-> pool]

PoolWrappers == { new_pool_wrapper(p) : p \in DOMAIN PoolHeap }

\* Pool::get_address through the wrapper's Deref.
get_address(w) == PoolHeap[w.pool].address

\* An equality that compares the pointers.
pool_eq_by_pointer(w1, w2) == w1.pool = w2.pool

\* PartialEq::eq.
pool_eq(w1, w2) == get_address(w1) = get_address(w2)

\* Hash::hash: the address is fed to the hasher, whose state is the sequence fed so far.
pool_hash(w, hasher) == Append(hasher, get_address(w))

\* Clone::clone: a wrapper around a copy of the pointer.
pool_clone(w) == [pool |-> w.pool]

\* An ordering that compares the pointers.
pool_cmp_by_pointer(w1, w2) ==
    IF w1.pool < w2.pool THEN "Less"
    ELSE IF w1.pool = w2.pool THEN "Equal"
    ELSE "Greater"

\* Ord::cmp: the comparison of the addresses.
pool_cmp(w1, w2) ==
    IF get_address(w1) < get_address(w2) THEN "Less"
    ELSE IF get_address(w1) = get_address(w2) THEN "Equal"
    ELSE "Greater"

\* PartialOrd::partial_cmp.
pool_partial_cmp(w1, w2) == Some(pool_cmp(w1, w2))

\* Two wrappers are built.
InitPool ==
    /\ wrappers \in PoolWrappers \X PoolWrappers
    /\ pool_result = [op |-> "new"]
    /\ MsIdle
    /\ SimIdle
    /\ NoWorkers
    /\ AcctIdle
    /\ BsIdle
    /\ PreIdle
    /\ LoomIdle
    /\ BenchIdle

PoolEq ==
    /\ pool_result' = [op |-> "eq", value |-> pool_eq(wrappers[1], wrappers[2])]
    /\ UNCHANGED wrappers
    /\ UNCHANGED notPool

PoolHash ==
    /\ pool_result' = [op |-> "hash",
                       value |-> << pool_hash(wrappers[1], << >>),
                                    pool_hash(wrappers[2], << >>) >>]
    /\ UNCHANGED wrappers
    /\ UNCHANGED notPool

\* The second wrapper is replaced by a clone of the first.
PoolClone ==
    /\ wrappers' = << wrappers[1], pool_clone(wrappers[1]) >>
    /\ pool_result' = [op |-> "clone"]
    /\ UNCHANGED notPool

\* The two wrappers are compared with each other, both ways, and with a third wrapper.
PoolCmp ==
    /\ \E w3 \in PoolWrappers :
          pool_result' = [op |-> "cmp",
                          value |-> << pool_cmp(wrappers[1], wrappers[2]),
                                       pool_partial_cmp(wrappers[1], wrappers[2]) >>,
                          reverse |-> pool_cmp(wrappers[2], wrappers[1]),
                          third |-> w3,
                          with_third |-> << pool_cmp(wrappers[2], w3),
                                            pool_cmp(wrappers[1], w3) >>]
    /\ UNCHANGED wrappers
    /\ UNCHANGED notPool

NextPool ==
    \/ PoolEq
    \/ PoolHash
    \/ PoolClone
    \/ PoolCmp

SpecPool == InitPool /\ [][NextPool]_vars

\* The two wrappers have the same address.
SameAddress == PoolHeap[wrappers[1].pool].address = PoolHeap[wrappers[2].pool].address

(***************************************************************************)
(* C20  PoolWrapper equality and hash.                                      *)
(***************************************************************************)
\* C20: w1 == w2 exactly when the two wrappers have the same address, whatever pool objects
\* they point to; wrappers that are equal feed the same to a hasher; and a clone of a
\* wrapper is equal to the wrapper and has the same address.
C20_PoolWrapperEqHash ==
    /\ pool_result.op = "eq" => (pool_result.value <=> SameAddress)
    /\ pool_result.op = "hash" =>
          (pool_eq(wrappers[1], wrappers[2]) => pool_result.value[1] = pool_result.value[2])
    /\ pool_result.op = "clone" => pool_eq(wrappers[1], wrappers[2]) /\ SameAddress

\* Two wrappers around pools of two classes at one address have compared equal.
C20_Witness ==
    /\ pool_result.op = "eq"
    /\ pool_result.value
    /\ wrappers[1].pool # wrappers[2].pool
    /\ PoolHeap[wrappers[1].pool].class # PoolHeap[wrappers[2].pool].class

(***************************************************************************)
(* C21  PoolWrapper ordering.                                               *)
(***************************************************************************)
Orderings == {"Less", "Equal", "Greater"}

\* Ordering::reverse.
ordering_reverse(o) == CASE o = "Less" -> "Greater" [] o = "Greater" -> "Less" [] OTHER -> o

\* C21: cmp is the ascending order of the addresses: it answers Less, Equal or Greater as
\* the first address is below, equal to or above the second; cmp(b, a) is the reverse of
\* cmp(a, b); a <= b and b <= c give a <= c, and with one of the two strict a < c;
\* partial_cmp returns Some(cmp); and cmp returns Equal exactly when the wrappers are ==.
C21_PoolWrapperOrd ==
    pool_result.op = "cmp" =>
        LET a == PoolHeap[wrappers[1].pool].address
            b == PoolHeap[wrappers[2].pool].address
            ab == pool_result.value[1]
            bc == pool_result.with_third[1]
            ac == pool_result.with_third[2]
        IN  /\ ab \in Orderings
            /\ (ab = "Less") <=> (a < b)
            /\ (ab = "Greater") <=> (a > b)
            /\ pool_result.reverse = ordering_reverse(ab)
            /\ (ab # "Greater" /\ bc # "Greater") => ac # "Greater"
            /\ (ab # "Greater" /\ bc # "Greater" /\ "Less" \in {ab, bc}) => ac = "Less"
            /\ pool_result.value[2] = Some(ab)
            /\ (ab = "Equal") <=> pool_eq(wrappers[1], wrappers[2])

\* Two wrappers around different pool objects at one address have compared Equal, and
\* both stand below a third wrapper at a higher address.
C21_Witness ==
    /\ pool_result.op = "cmp"
    /\ pool_result.value = << "Equal", Some("Equal") >>
    /\ wrappers[1].pool # wrappers[2].pool
    /\ pool_result.with_third = << "Less", "Less" >>

(***************************************************************************)
(* Shared cells: values behind a reader-writer lock.  A guard taken and     *)
(* dropped inside one statement that awaits nothing else is one step; a     *)
(* guard that lives across an await is kept in guards.                      *)
(***************************************************************************)
Guard(w, cell, mode) == [worker |-> w, cell |-> cell, mode |-> mode]

\* The guards a worker holds.
held_by(w) == { g \in guards : g.worker = w }

\* One lock for all the cells: a guard on any cell stands in the way.
can_acquire_one_lock(cell, mode) ==
    IF mode = "read"
    THEN \A g \in guards : g.mode = "read"
    ELSE guards = {}

\* RwLock::read is granted when no writer holds the cell, RwLock::write when nobody does.
can_acquire(cell, mode) ==
    IF mode = "read"
    THEN \A g \in guards : g.cell = cell => g.mode = "read"
    ELSE \A g \in guards : g.cell # cell

\* The record of a guard being taken.
acquired(w, cell, mode) ==
    [worker |-> w, cell |-> cell, mode |-> mode, held |-> held_by(w)]

\* The ascending sequence of the elements of a set of numbers.
RECURSIVE sorted_seq(_)
sorted_seq(S) == IF S = {} THEN << >> ELSE << MinKey(S) >> \o sorted_seq(S \ {MinKey(S)})

(***************************************************************************)
(* The nonce and balance actor: the fetcher and the monitor.                *)
(***************************************************************************)
\* The number of rounds of the fetcher.
MaxRounds == 1

\* The number of messages in the monitor's subscription.
MaxEvents == 1

BlockHashes == {1, 2}

\* A transaction of a block.
Tx(from, to, nonce, value, gas, max_fee, max_priority) ==
    [from |-> from, to |-> to, nonce |-> nonce, value |-> value, gas |-> gas,
     max_fee_per_gas |-> max_fee, max_priority_fee_per_gas |-> max_priority]

\* The transactions of the blocks.  Addresses 1 and 2 are tracked, address 3 is not; the
\* legacy transaction carries a gas price and neither of the two fee fields.
Txs ==
    [pay       |-> Tx(1, Some(3), 5, 10, 2, Some(3), Some(1)),
     pay_next  |-> Tx(1, Some(3), 6, 1, 2, Some(3), Some(1)),
     receive   |-> Tx(3, Some(2), 1, 7, 2, Some(3), Some(1)),
     create    |-> Tx(2, None, 9, 0, 2, Some(3), Some(1)),
     between   |-> Tx(2, Some(1), 3, 4, 2, Some(3), Some(1)),
     legacy    |-> Tx(1, Some(2), 5, 10, 2, None, None)]

\* The contents of BlockHistory: an entry has a block or none, a block has its transactions
\* in full or their hashes only.
Histories ==
    LET full(txs) == [block |-> Some([transactions |-> << "Full", txs >>])]
        hashes == [block |-> Some([transactions |-> << "Hashes" >>])]
        no_block == [block |-> None]
    IN  { (1 :> full(<< Txs.pay, Txs.receive >>)) @@ (2 :> full(<< Txs.legacy >>)),
          (1 :> full(<< Txs.pay, Txs.pay_next >>)) @@ (2 :> hashes),
          (1 :> full(<< Txs.create, Txs.between >>)) @@ (2 :> no_block),
          (1 :> full(<< Txs.receive, Txs.legacy >>)) }

BlockTxUpdate(h) == [type |-> "BlockTxUpdate", block_hash |-> h]

\* The messages of the market events channel: block updates and one of another kind.
MarketEventMsgs ==
    { BlockTxUpdate(h) : h \in BlockHashes }
        \cup { [type |-> "BlockHeaderUpdate", block_hash |-> 1] }

\* The sequences of up to n elements of S.
RECURSIVE SeqsUpTo(_, _)
SeqsUpTo(S, n) ==
    IF n = 0 THEN { << >> }
    ELSE SeqsUpTo(S, n - 1) \cup { Append(q, x) : q \in { r \in SeqsUpTo(S, n - 1) : Len(r) = n - 1 }, x \in S }

\* The answers of the provider to the fetcher.
FetcherAnswers ==
    [get_transaction_count |-> { Ok(7), Err("rpc") },
     get_balance |-> { Ok(500), Err("rpc") }]

\* AccountNonceAndBalances: the nonce and the balance of the token Address::ZERO.
AccountOf(nonce, balance) == [nonce |-> nonce, balance |-> balance]

InitAccountsState == (1 :> AccountOf(4, 1000)) @@ (2 :> AccountOf(0, 1000))

get_accounts_vec(st) == sorted_seq(DOMAIN st)

is_monitored(st, address) == address \in DOMAIN st

get_mut_account(st, address) == IF address \in DOMAIN st THEN Some(st[address]) ELSE None

set_nonce(acc, nonce) == [acc EXCEPT !.nonce = nonce]

set_balance(acc, balance) == [acc EXCEPT !.balance = balance]

sub_balance(acc, amount) == [acc EXCEPT !.balance = @ - amount]

add_balance(acc, amount) == [acc EXCEPT !.balance = @ + amount]

\* RecvError::Lagged(n).
Lagged(n) == << "Lagged", n >>

\* tokio broadcast Sender::send as a subscription sees it: the message is retained, and
\* when the channel retains `capacity` messages already the oldest is overwritten.
send(sub, capacity, msg) ==
    IF Len(sub.queue) >= capacity
    THEN Subscription(Append(Tail(sub.queue), msg), sub.lost + 1)
    ELSE Subscription(Append(sub.queue, msg), sub.lost)

\* The messages of a sequence sent one after the other.
RECURSIVE send_all(_, _, _)
send_all(sub, capacity, msgs) ==
    IF msgs = << >> THEN sub
    ELSE send_all(send(sub, capacity, Head(msgs)), capacity, Tail(msgs))

\* tokio broadcast Receiver::recv: the lagged error with the number of messages lost when
\* messages the receiver had not received were overwritten, else the oldest message
\* retained, the closed error once every sender is gone and nothing waits, and otherwise
\* no answer yet.
recv(sub, closed) ==
    IF sub.lost > 0 THEN Err(Lagged(sub.lost))
    ELSE IF sub.queue # << >> THEN Ok(Head(sub.queue))
    ELSE IF closed THEN Err("Closed")
    ELSE << "Pending" >>

\* The subscription after recv has answered: the lagged error moves the receiver to the
\* oldest message retained, a message received is taken off.
recv_leaves(sub) ==
    IF sub.lost > 0 THEN Subscription(sub.queue, 0)
    ELSE IF sub.queue # << >> THEN Subscription(Tail(sub.queue), 0)
    ELSE sub

\* The capacities of the channels, which tokio rounds up to a power of two.
Capacities == {1, 2, 4}

\* The subscriptions a worker starts with: up to n messages were sent, to a channel of one
\* of the capacities, before its first recv.
Subscriptions(S, n) ==
    { send_all(Subscription(<< >>, 0), capacity, msgs) :
        msgs \in SeqsUpTo(S, n), capacity \in Capacities }

\* Both fee fields are there, so the two unwrap() calls return.
fees_unwrap(tx) == tx.max_fee_per_gas # None /\ tx.max_priority_fee_per_gas # None

\* What the sender of a transaction has spent at most.
spent(tx) ==
    (tx.max_fee_per_gas[1] + tx.max_priority_fee_per_gas[1]) * tx.gas + tx.value

\* The locals of the monitor, and for each block update it has looked up whether it found
\* the transactions of the block.
MonLocals(msg, block_hash, txs, tx, looked_up) ==
    [msg |-> msg, block_hash |-> block_hash, txs |-> txs, tx |-> tx,
     looked_up |-> looked_up]

\* The locals of the fetcher, and the nonce and the balance the state held for the address
\* when the provider's Ok answer to the nonce request and to the balance request came.
FetLocals(rounds, accounts, addr, nonce, balance, seen) ==
    [rounds |-> rounds, accounts |-> accounts, addr |-> addr, nonce |-> nonce,
     balance |-> balance, seen |-> seen]

NothingSeen == [nonce |-> None, balance |-> None]

\* The field the state holds for an address, None when the address is not in the state.
tracked(st, address, field) ==
    IF address \in DOMAIN st THEN Some(st[address][field]) ELSE None

\* NonceAndBalanceMonitorActor::start: the two workers are spawned.
InitAccounts ==
    /\ pc = [w \in Workers |-> IF w = "fetcher" THEN "read_accounts"
                                ELSE IF w = "monitor" THEN "recv" ELSE "not_started"]
    /\ guards = {}
    /\ lock_log = [worker |-> "none"]
    /\ accounts_state = InitAccountsState
    /\ block_history \in Histories
    /\ market_events \in Subscriptions(MarketEventMsgs, MaxEvents)
    /\ market_events_closed \in BOOLEAN
    /\ mon = MonLocals(None, 0, << >>, None, {})
    /\ fet = FetLocals(0, << >>, None, None, None, NothingSeen)
    /\ acct_log = [worker |-> "none"]
    /\ MsIdle
    /\ SimIdle
    /\ PoolIdle
    /\ BsIdle
    /\ PreIdle
    /\ LoomIdle
    /\ BenchIdle

\* let accounts = accounts_state.read().await.get_accounts_vec();
FetcherReadAccounts ==
    /\ pc["fetcher"] = "read_accounts"
    /\ fet.rounds < MaxRounds
    /\ can_acquire("Nonce", "read")
    /\ lock_log' = acquired("fetcher", "Nonce", "read")
    /\ fet' = [fet EXCEPT !.accounts = get_accounts_vec(accounts_state)]
    /\ pc' = [pc EXCEPT !["fetcher"] = "next_account"]
    /\ UNCHANGED << guards, accounts_state, block_history, market_events,
                    market_events_closed, mon, acct_log >>
    /\ UNCHANGED notAcct

\* for addr in accounts.into_iter(), and the sleep after the last account.
FetcherNextAccount ==
    /\ pc["fetcher"] = "next_account"
    /\ IF fet.accounts = << >>
       THEN /\ fet' = FetLocals(fet.rounds + 1, << >>, None, None, None, NothingSeen)
            /\ pc' = [pc EXCEPT !["fetcher"] = "read_accounts"]
       ELSE /\ fet' = [fet EXCEPT !.addr = Some(Head(fet.accounts)),
                                  !.accounts = Tail(fet.accounts),
                                  !.nonce = None, !.balance = None,
                                  !.seen = NothingSeen]
            /\ pc' = [pc EXCEPT !["fetcher"] = "get_transaction_count"]
    /\ UNCHANGED << guards, lock_log, accounts_state, block_history, market_events,
                    market_events_closed, mon, acct_log >>
    /\ UNCHANGED notAcct

\* let nonce = client.get_transaction_count(addr)...await;
FetcherGetTransactionCount ==
    /\ pc["fetcher"] = "get_transaction_count"
    /\ \E nonce \in FetcherAnswers.get_transaction_count :
          fet' = [fet EXCEPT !.nonce = Some(nonce),
                             !.seen.nonce =
                                 IF is_ok(nonce) THEN tracked(accounts_state, fet.addr[1], "nonce")
                                 ELSE None]
    /\ pc' = [pc EXCEPT !["fetcher"] = "get_balance"]
    /\ UNCHANGED << guards, lock_log, accounts_state, block_history, market_events,
                    market_events_closed, mon, acct_log >>
    /\ UNCHANGED notAcct

\* let balance = client.get_balance(addr)...await;
FetcherGetBalance ==
    /\ pc["fetcher"] = "get_balance"
    /\ \E balance \in FetcherAnswers.get_balance :
          fet' = [fet EXCEPT !.balance = Some(balance),
                             !.seen.balance =
                                 IF is_ok(balance)
                                 THEN tracked(accounts_state, fet.addr[1], "balance")
                                 ELSE None]
    /\ pc' = [pc EXCEPT !["fetcher"] = "write_account"]
    /\ UNCHANGED << guards, lock_log, accounts_state, block_history, market_events,
                    market_events_closed, mon, acct_log >>
    /\ UNCHANGED notAcct

\* A fetcher that stores the default value for an answer that is an error.
fetched_account_default(acc, nonce, balance) ==
    set_balance(set_nonce(acc, IF is_ok(nonce) THEN nonce[2] ELSE 0),
                IF is_ok(balance) THEN balance[2] ELSE 0)

\* The account after the fetcher has stored the answers that are Ok.
fetched_account(acc, nonce, balance) ==
    LET with_nonce == IF is_ok(nonce) THEN set_nonce(acc, nonce[2]) ELSE acc
    IN  IF is_ok(balance) THEN set_balance(with_nonce, balance[2]) ELSE with_nonce

\* if let Some(acc) = accounts_state.write().await.get_mut_account(&addr) { ... };
FetcherWriteAccount ==
    /\ pc["fetcher"] = "write_account"
    /\ can_acquire("Nonce", "write")
    /\ lock_log' = acquired("fetcher", "Nonce", "write")
    /\ LET addr == fet.addr[1]
           acc == get_mut_account(accounts_state, addr)
       IN  /\ accounts_state' =
                 IF acc = None THEN accounts_state
                 ELSE [accounts_state EXCEPT
                          ![addr] = fetched_account(acc[1], fet.nonce[1], fet.balance[1])]
           /\ acct_log' = [worker |-> "fetcher", op |-> "fetch", address |-> addr,
                           nonce |-> fet.nonce[1], balance |-> fet.balance[1],
                           changed_since |->
                               { f \in {"nonce", "balance"} :
                                    /\ fet.seen[f] # None
                                    /\ tracked(accounts_state, addr, f) \notin {None, fet.seen[f]} },
                           pre |-> accounts_state]
    /\ fet' = [fet EXCEPT !.seen = NothingSeen]
    /\ pc' = [pc EXCEPT !["fetcher"] = "next_account"]
    /\ UNCHANGED << guards, block_history, market_events, market_events_closed, mon >>
    /\ UNCHANGED notAcct

\* msg = market_events.recv() in the select!, and the if let on the message.
MonitorRecv ==
    /\ pc["monitor"] = "recv"
    /\ LET msg == recv(market_events, market_events_closed)
       IN  /\ msg # << "Pending" >>
           /\ market_events' = recv_leaves(market_events)
           /\ IF is_ok(msg) /\ msg[2].type = "BlockTxUpdate"
              THEN /\ mon' = MonLocals(Some(msg), msg[2].block_hash, << >>, None,
                                       mon.looked_up)
                   /\ pc' = [pc EXCEPT !["monitor"] = "read_history"]
              ELSE /\ mon' = MonLocals(Some(msg), 0, << >>, None, mon.looked_up)
                   /\ pc' = pc
    /\ UNCHANGED << guards, lock_log, accounts_state, block_history, market_events_closed,
                    fet, acct_log >>
    /\ UNCHANGED notAcct

\* The transactions of the entry when it has a block with full transactions.
full_transactions(history, block_hash) ==
    IF block_hash \notin DOMAIN history THEN None
    ELSE IF history[block_hash].block = None THEN None
    ELSE IF history[block_hash].block[1].transactions[1] # "Full" THEN None
    ELSE Some(history[block_hash].block[1].transactions[2])

\* if let Some(block_entry) = block_history_state.read().await
\*     .get_market_history_entry(&block_hash).cloned() { ... }: the read guard is a temporary
\* of the scrutinee and lives to the end of the if let.
MonitorReadHistory ==
    /\ pc["monitor"] = "read_history"
    /\ can_acquire("BlockHistory", "read")
    /\ lock_log' = acquired("monitor", "BlockHistory", "read")
    /\ LET txs == full_transactions(block_history, mon.block_hash)
       IN  IF txs = None
           THEN /\ guards' = guards
                /\ mon' = [mon EXCEPT !.block_hash = 0,
                                      !.looked_up = @ \cup {<< mon.block_hash, "missing" >>}]
                /\ pc' = [pc EXCEPT !["monitor"] = "recv"]
           ELSE /\ guards' = guards \cup {Guard("monitor", "BlockHistory", "read")}
                /\ mon' = [mon EXCEPT !.txs = txs[1],
                                      !.looked_up = @ \cup {<< mon.block_hash, "found" >>}]
                /\ pc' = [pc EXCEPT !["monitor"] = "next_tx"]
    /\ UNCHANGED << accounts_state, block_history, market_events, market_events_closed,
                    fet, acct_log >>
    /\ UNCHANGED notAcct

\* for tx in txs, and the end of the if let after the last transaction.
MonitorNextTx ==
    /\ pc["monitor"] = "next_tx"
    /\ IF mon.txs = << >>
       THEN /\ guards' = guards \ {Guard("monitor", "BlockHistory", "read")}
            /\ mon' = [mon EXCEPT !.block_hash = 0, !.tx = None]
            /\ pc' = [pc EXCEPT !["monitor"] = "recv"]
       ELSE /\ guards' = guards
            /\ mon' = [mon EXCEPT !.tx = Some(Head(mon.txs)), !.txs = Tail(mon.txs)]
            /\ pc' = [pc EXCEPT !["monitor"] = "check_from"]
    /\ UNCHANGED << lock_log, accounts_state, block_history, market_events,
                    market_events_closed, fet, acct_log >>
    /\ UNCHANGED notAcct

\* if accounts_state.read().await.is_monitored(&tx_from)
MonitorCheckFrom ==
    /\ pc["monitor"] = "check_from"
    /\ can_acquire("Nonce", "read")
    /\ lock_log' = acquired("monitor", "Nonce", "read")
    /\ pc' = [pc EXCEPT !["monitor"] =
                 IF is_monitored(accounts_state, mon.tx[1].from) THEN "write_from"
                 ELSE "check_to"]
    /\ UNCHANGED << guards, accounts_state, block_history, market_events,
                    market_events_closed, mon, fet, acct_log >>
    /\ UNCHANGED notAcct

\* if let Some(account) = accounts_state.write().await.get_mut_account(&tx_from) { ... }:
\* a missing fee field makes unwrap() panic, the worker's task ends and its guards drop.
MonitorWriteFrom ==
    /\ pc["monitor"] = "write_from"
    /\ can_acquire("Nonce", "write")
    /\ lock_log' = acquired("monitor", "Nonce", "write")
    /\ LET tx == mon.tx[1]
           acc == get_mut_account(accounts_state, tx.from)
       IN  IF acc = None
           THEN /\ UNCHANGED << accounts_state, acct_log, guards, mon >>
                /\ pc' = [pc EXCEPT !["monitor"] = "check_to"]
           ELSE IF ~fees_unwrap(tx)
           THEN /\ UNCHANGED << accounts_state >>
                /\ acct_log' = [worker |-> "monitor", op |-> "from", tx |-> tx,
                                panicked |-> TRUE, pre |-> accounts_state]
                /\ guards' = guards \ held_by("monitor")
                /\ mon' = MonLocals(mon.msg, 0, << >>, None, mon.looked_up)
                /\ pc' = [pc EXCEPT !["monitor"] = "panicked"]
           ELSE /\ accounts_state' =
                      [accounts_state EXCEPT
                          ![tx.from] = set_nonce(sub_balance(acc[1], spent(tx)), tx.nonce)]
                /\ acct_log' = [worker |-> "monitor", op |-> "from", tx |-> tx,
                                panicked |-> FALSE, pre |-> accounts_state]
                /\ UNCHANGED << guards, mon >>
                /\ pc' = [pc EXCEPT !["monitor"] = "check_to"]
    /\ UNCHANGED << block_history, market_events, market_events_closed, fet >>
    /\ UNCHANGED notAcct

\* if let Some(to) = tx.to { if accounts_state.read().await.is_monitored(&to)
MonitorCheckTo ==
    /\ pc["monitor"] = "check_to"
    /\ IF mon.tx[1].to = None
       THEN /\ UNCHANGED lock_log
            /\ pc' = [pc EXCEPT !["monitor"] = "next_tx"]
       ELSE /\ can_acquire("Nonce", "read")
            /\ lock_log' = acquired("monitor", "Nonce", "read")
            /\ pc' = [pc EXCEPT !["monitor"] =
                         IF is_monitored(accounts_state, mon.tx[1].to[1]) THEN "write_to"
                         ELSE "next_tx"]
    /\ UNCHANGED << guards, accounts_state, block_history, market_events,
                    market_events_closed, mon, fet, acct_log >>
    /\ UNCHANGED notAcct

\* if let Some(account) = accounts_state.write().await.get_mut_account(&to) { ... }
MonitorWriteTo ==
    /\ pc["monitor"] = "write_to"
    /\ can_acquire("Nonce", "write")
    /\ lock_log' = acquired("monitor", "Nonce", "write")
    /\ LET tx == mon.tx[1]
           acc == get_mut_account(accounts_state, tx.to[1])
       IN  IF acc = None
           THEN UNCHANGED << accounts_state, acct_log >>
           ELSE /\ accounts_state' =
                      [accounts_state EXCEPT ![tx.to[1]] = add_balance(acc[1], tx.value)]
                /\ acct_log' = [worker |-> "monitor", op |-> "to", tx |-> tx,
                                panicked |-> FALSE, pre |-> accounts_state]
    /\ pc' = [pc EXCEPT !["monitor"] = "next_tx"]
    /\ UNCHANGED << guards, block_history, market_events, market_events_closed, mon, fet >>
    /\ UNCHANGED notAcct

\* The block history actor stores the block of a hash whose entry is missing or has no
\* block yet, under the write guard of BlockHistory, after the monitor has looked the hash
\* up (a block stored before that is a block the history starts with).
BlockHistoryAddBlock ==
    /\ pc["monitor"] # "not_started"
    /\ can_acquire("BlockHistory", "write")
    /\ \E block_hash \in BlockHashes :
          /\ << block_hash, "missing" >> \in mon.looked_up
          /\ IF block_hash \in DOMAIN block_history
             THEN block_history[block_hash].block = None
             ELSE TRUE
          /\ block_history' =
                (block_hash :> [block |-> Some([transactions |-> << "Full", << Txs.between >> >>])])
                    @@ block_history
    /\ UNCHANGED << pc, guards, lock_log, accounts_state, market_events, market_events_closed,
                    mon, fet, acct_log >>
    /\ UNCHANGED notAcct

\* An address stops being monitored: it is removed from the state under the write guard,
\* after the fetcher has read the addresses and before it writes what it fetched for it.
AccountsRemove ==
    /\ pc["fetcher"] \in {"get_transaction_count", "get_balance", "write_account"}
    /\ can_acquire("Nonce", "write")
    /\ \E address \in DOMAIN accounts_state :
          /\ fet.addr = Some(address)
          /\ address = 2
          /\ accounts_state' = [a \in DOMAIN accounts_state \ {address} |-> accounts_state[a]]
          /\ acct_log' = [worker |-> "other", op |-> "remove", address |-> address,
                          pre |-> accounts_state]
    /\ UNCHANGED << pc, guards, lock_log, block_history, market_events, market_events_closed,
                    mon, fet >>
    /\ UNCHANGED notAcct

NextAccounts ==
    \/ BlockHistoryAddBlock
    \/ AccountsRemove
    \/ FetcherReadAccounts
    \/ FetcherNextAccount
    \/ FetcherGetTransactionCount
    \/ FetcherGetBalance
    \/ FetcherWriteAccount
    \/ MonitorRecv
    \/ MonitorReadHistory
    \/ MonitorNextTx
    \/ MonitorCheckFrom
    \/ MonitorWriteFrom
    \/ MonitorCheckTo
    \/ MonitorWriteTo

SpecAccounts == InitAccounts /\ [][NextAccounts]_vars

\* The steps of each of the two tasks.
FetcherStep ==
    \/ FetcherReadAccounts
    \/ FetcherNextAccount
    \/ FetcherGetTransactionCount
    \/ FetcherGetBalance
    \/ FetcherWriteAccount

MonitorStep ==
    \/ MonitorRecv
    \/ MonitorReadHistory
    \/ MonitorNextTx
    \/ MonitorCheckFrom
    \/ MonitorWriteFrom
    \/ MonitorCheckTo
    \/ MonitorWriteTo

\* The two workers started on a subscription full of updates of block 1, whose
\* transactions are in BlockHistory, with the senders of the channel alive.
InitAccountsFair ==
    /\ InitAccounts
    /\ ~market_events_closed
    /\ market_events = Subscription([i \in 1..MaxEvents |-> BlockTxUpdate(1)], 0)

NextAccountsFair == FetcherStep \/ MonitorStep

\* The two tasks under the tokio scheduler and its fair RwLock: a task that can take a
\* step (its RPC call returns, its guard can be granted) eventually takes one.
SpecAccountsFair ==
    InitAccountsFair /\ [][NextAccountsFair]_vars
        /\ WF_vars(FetcherStep) /\ WF_vars(MonitorStep)

(***************************************************************************)
(* The block state actor: one worker from block hashes to state updates.    *)
(***************************************************************************)
\* The number of block hashes in the worker's subscription.
MaxHashes == 3

\* What debug_trace_block answers: the state before and after the block, or an error; and
\* what sender.send answers: the number of subscribers reached, or an error when none is.
BlockStateAnswers ==
    [debug_trace_block |->
        { Ok([pre |-> << 1 :> S1Start >>, post |-> << 1 :> S1Diff >>]),
          Ok([pre |-> << 1 :> S1Diff >>, post |-> << 2 :> S1Start >>]),
          Err("trace") },
     send |-> { Ok(1), Err("no subscriber") }]

BlockStateUpdate(block_hash, state_update) ==
    [block_hash |-> block_hash, state_update |-> state_update]

\* An update made of the state before the block.
update_of_trace_pre(block_hash, trace) == BlockStateUpdate(block_hash, trace[2].pre)

\* Ok((_, post)) => BlockStateUpdate { block_hash, state_update: post }
update_of_trace(block_hash, trace) == BlockStateUpdate(block_hash, trace[2].post)

\* The locals of the worker, the number of hashes it has received and the answer to each
\* trace it has asked for.
BswLocals(msg, block_hash, trace_result, received, log) ==
    [msg |-> msg, block_hash |-> block_hash, trace_result |-> trace_result,
     received |-> received, log |-> log]

\* A worker that returns at the first error.
on_error_return == "returned"

\* The Err arms only log: the worker goes on with the next turn of the loop.
on_error == "recv"

\* new_node_block_state_worker is spawned and has subscribed.
InitBlockState ==
    /\ pc = [w \in Workers |-> IF w = "block_state" THEN "recv" ELSE "not_started"]
    /\ guards = {}
    /\ lock_log = [worker |-> "none"]
    /\ block_hashes \in Subscriptions(BlockHashes, MaxHashes)
    /\ block_hashes_closed \in BOOLEAN
    /\ bsw = BswLocals(None, 0, None, 0, << >>)
    /\ traced = << >>
    /\ published = << >>
    /\ MsIdle
    /\ SimIdle
    /\ PoolIdle
    /\ AcctIdle
    /\ PreIdle
    /\ LoomIdle
    /\ BenchIdle

\* if let Ok(block_hash) = block_hash_receiver.recv().await
BlockStateRecv ==
    /\ pc["block_state"] = "recv"
    /\ LET msg == recv(block_hashes, block_hashes_closed)
       IN  /\ msg # << "Pending" >>
           /\ block_hashes' = recv_leaves(block_hashes)
           /\ IF is_ok(msg)
              THEN /\ bsw' = BswLocals(Some(msg), msg[2], None, bsw.received + 1, bsw.log)
                   /\ pc' = [pc EXCEPT !["block_state"] = "debug_trace_block"]
              ELSE /\ bsw' = BswLocals(Some(msg), 0, None, bsw.received, bsw.log)
                   /\ pc' = pc
    /\ UNCHANGED << guards, lock_log, block_hashes_closed, traced, published >>
    /\ UNCHANGED notBs

\* let trace_result = debug_trace_block(...).await; match trace_result
BlockStateTrace ==
    /\ pc["block_state"] = "debug_trace_block"
    /\ \E trace_result \in BlockStateAnswers.debug_trace_block :
          LET log == Append(bsw.log, [block_hash |-> bsw.block_hash,
                                      trace_result |-> trace_result])
          IN  IF is_ok(trace_result)
              THEN /\ bsw' = [bsw EXCEPT !.trace_result = Some(trace_result), !.log = log]
                   /\ traced' = Append(traced, [block_hash |-> bsw.block_hash,
                                                trace |-> trace_result])
                   /\ pc' = [pc EXCEPT !["block_state"] = "send"]
              ELSE /\ bsw' = BswLocals(bsw.msg, 0, None, bsw.received, log)
                   /\ traced' = traced
                   /\ pc' = [pc EXCEPT !["block_state"] = on_error]
    /\ UNCHANGED << guards, lock_log, block_hashes, block_hashes_closed, published >>
    /\ UNCHANGED notBs

\* if let Err(e) = sender.send(BlockStateUpdate { ... }).await { error!(...) }
BlockStateSend ==
    /\ pc["block_state"] = "send"
    /\ \E answer \in BlockStateAnswers.send :
          /\ published' = Append(published,
                                 [update |-> update_of_trace(bsw.block_hash, bsw.trace_result[1]),
                                  answer |-> answer])
          /\ pc' = [pc EXCEPT !["block_state"] = IF is_ok(answer) THEN "recv" ELSE on_error]
    /\ bsw' = BswLocals(bsw.msg, 0, None, bsw.received, bsw.log)
    /\ UNCHANGED << guards, lock_log, block_hashes, block_hashes_closed, traced >>
    /\ UNCHANGED notBs

NextBlockState ==
    \/ BlockStateRecv
    \/ BlockStateTrace
    \/ BlockStateSend

SpecBlockState == InitBlockState /\ [][NextBlockState]_vars

(***************************************************************************)
(* The market state preloader: preload_market_state, awaited by start.      *)
(***************************************************************************)
\* The number of signers in TxSigners.
MaxSigners == 2

\* The addresses the preloader writes: the quoter's, the multicaller's (what
\* encoder.get_multicaller() returns) and the signers'.
PreloadAddresses == [quoter |-> 10, multicaller |-> 11, signers |-> {12, 13}]

\* UniswapV3Protocol::get_quoter_v3_state(): the quoter contract with its code.
QuoterState == PreloadAddresses.quoter :> Entry(None, None, Some(<< 9, 9, 9 >>), EmptyMap)

\* A signer of TxSigners: its address, and whether get_signer_by_index hands it out.
SignerSlots == [address : PreloadAddresses.signers, retrievable : BOOLEAN]

\* The contents of TxSigners: signers of distinct addresses.
SignerVecs ==
    { v \in SeqsUpTo(SignerSlots, MaxSigners) :
        \A i, j \in 1..Len(v) : i # j => v[i].address # v[j].address }

get_signer_by_index(signers_vec, i) ==
    IF signers_vec[i + 1].retrievable THEN Ok(signers_vec[i + 1].address)
    ELSE Err("signer")

\* A preloader that reads the Market cell where it reads the signers.
signers_cell_market == "Market"

\* signers: SharedState<TxSigners>, the cell read for the signers.
signers_cell == "TxSigners"

\* The answers of the provider to the preloader.
PreloadAnswers ==
    [get_code_at |-> { Ok(<< 5, 6, 7 >>), Ok(<< 8 >>), Err("rpc") },
     get_transaction_count |-> { Ok(7), Ok(3), Err("rpc") },
     get_balance |-> { Ok(500), Ok(20), Err("rpc") }]

PreLocals(result, state, i, signer, nonce, answers, failures) ==
    [result |-> result, state |-> state, i |-> i, signer |-> signer, nonce |-> nonce,
     answers |-> answers, failures |-> failures]

\* The state entry of the multicaller.
multicaller_entry(code) == Entry(Some(0), None, Some(code), EmptyMap)

\* The state entry of a signer.
signer_entry(balance, nonce) == Entry(Some(balance), Some(nonce), None, EmptyMap)

\* MarketStatePreloadedActor::start is called: preload_market_state begins on an empty
\* MarketState.
InitPreload ==
    /\ pc = [w \in Workers |-> IF w = "preloader" THEN "write_market_state"
                                ELSE "not_started"]
    /\ guards = {}
    /\ lock_log = [worker |-> "none"]
    /\ signers \in SignerVecs
    /\ pre = PreLocals(None, EmptyMap, 0, None, None, EmptyMap, {})
    /\ state_db = EmptyDb
    /\ force_insert_accounts = {}
    /\ read_only_cells = EmptyMap
    /\ last = [op |-> "none"]
    /\ steps = 0
    /\ SimIdle
    /\ PoolIdle
    /\ AcctIdle
    /\ BsIdle
    /\ LoomIdle
    /\ BenchIdle

\* An unwrap() on an Err: the task unwinds, its guards drop, start never returns.
preload_panics(step) ==
    /\ pre' = PreLocals(Some("panic"), EmptyMap, 0, None, None, pre.answers,
                        pre.failures \cup {step})
    /\ guards' = guards \ held_by("preloader")
    /\ pc' = [pc EXCEPT !["preloader"] = "panicked"]

\* let mut market_state_guard = market_state.write().await;
\* let _ = market_state_guard.add_state(&UniswapV3Protocol::get_quoter_v3_state());
PreloadWriteMarketState ==
    /\ pc["preloader"] = "write_market_state"
    /\ can_acquire("MarketState", "write")
    /\ lock_log' = acquired("preloader", "MarketState", "write")
    /\ guards' = guards \cup {Guard("preloader", "MarketState", "write")}
    /\ state_db' = add_state(state_db, QuoterState)
    /\ pc' = [pc EXCEPT !["preloader"] = "get_code_at"]
    /\ UNCHANGED << signers, pre >>
    /\ UNCHANGED notPre

\* let multicaller_code = client.get_code_at(multicaller_address)...await.unwrap();
\* state.insert(multicaller_address, AccountState { ... });
PreloadGetCodeAt ==
    /\ pc["preloader"] = "get_code_at"
    /\ \E code \in PreloadAnswers.get_code_at :
          IF is_ok(code)
          THEN /\ pre' = [pre EXCEPT
                            !.state = (PreloadAddresses.multicaller :> multicaller_entry(code[2])) @@ @,
                            !.answers = (<< "get_code_at", PreloadAddresses.multicaller >> :> code[2]) @@ @]
               /\ pc' = [pc EXCEPT !["preloader"] = "read_signers"]
               /\ UNCHANGED guards
          ELSE preload_panics("get_code_at")
    /\ UNCHANGED << lock_log, signers, state_db >>
    /\ UNCHANGED notPre

\* let signers_guard = signers.read().await;
PreloadReadSigners ==
    /\ pc["preloader"] = "read_signers"
    /\ can_acquire(signers_cell, "read")
    /\ lock_log' = acquired("preloader", signers_cell, "read")
    /\ guards' = guards \cup {Guard("preloader", signers_cell, "read")}
    /\ pc' = [pc EXCEPT !["preloader"] = "next_signer"]
    /\ UNCHANGED << signers, pre, state_db >>
    /\ UNCHANGED notPre

\* for i in 0..signers_guard.len() { match signers_guard.get_signer_by_index(i) { ... } }
PreloadNextSigner ==
    /\ pc["preloader"] = "next_signer"
    /\ IF pre.i >= Len(signers)
       THEN /\ pre' = pre
            /\ pc' = [pc EXCEPT !["preloader"] = "add_state"]
       ELSE LET s == get_signer_by_index(signers, pre.i)
            IN  IF is_ok(s)
                THEN /\ pre' = [pre EXCEPT !.signer = Some(s[2])]
                     /\ pc' = [pc EXCEPT !["preloader"] = "get_transaction_count"]
                ELSE /\ pre' = [pre EXCEPT !.i = @ + 1,
                                           !.failures = @ \cup {"get_signer_by_index"}]
                     /\ pc' = pc
    /\ UNCHANGED << guards, lock_log, signers, state_db >>
    /\ UNCHANGED notPre

\* let nonce = client.get_transaction_count(signer_address)...await.unwrap();
PreloadGetTransactionCount ==
    /\ pc["preloader"] = "get_transaction_count"
    /\ \E nonce \in PreloadAnswers.get_transaction_count :
          IF is_ok(nonce)
          THEN /\ pre' = [pre EXCEPT
                            !.nonce = Some(nonce[2]),
                            !.answers = (<< "get_transaction_count", pre.signer[1] >> :> nonce[2]) @@ @]
               /\ pc' = [pc EXCEPT !["preloader"] = "get_balance"]
               /\ UNCHANGED guards
          ELSE preload_panics("get_transaction_count")
    /\ UNCHANGED << lock_log, signers, state_db >>
    /\ UNCHANGED notPre

\* let balance = client.get_balance(signer_address)...await.unwrap();
\* state.insert(signer_address, AccountState { ... });
PreloadGetBalance ==
    /\ pc["preloader"] = "get_balance"
    /\ \E balance \in PreloadAnswers.get_balance :
          IF is_ok(balance)
          THEN /\ pre' = [pre EXCEPT
                            !.state = (pre.signer[1] :> signer_entry(balance[2], pre.nonce[1])) @@ @,
                            !.answers = (<< "get_balance", pre.signer[1] >> :> balance[2]) @@ @,
                            !.i = @ + 1, !.signer = None, !.nonce = None]
               /\ pc' = [pc EXCEPT !["preloader"] = "next_signer"]
               /\ UNCHANGED guards
          ELSE preload_panics("get_balance")
    /\ UNCHANGED << lock_log, signers, state_db >>
    /\ UNCHANGED notPre

\* market_state_guard.add_state(&state); Ok(()) -- and start returns Ok(vec![]).
PreloadAddState ==
    /\ pc["preloader"] = "add_state"
    /\ state_db' = add_state(state_db, pre.state)
    /\ pre' = PreLocals(Some("Ok"), EmptyMap, 0, None, None, pre.answers, pre.failures)
    /\ guards' = guards \ held_by("preloader")
    /\ pc' = [pc EXCEPT !["preloader"] = "returned"]
    /\ UNCHANGED << lock_log, signers >>
    /\ UNCHANGED notPre

NextPreload ==
    \/ PreloadWriteMarketState
    \/ PreloadGetCodeAt
    \/ PreloadReadSigners
    \/ PreloadNextSigner
    \/ PreloadGetTransactionCount
    \/ PreloadGetBalance
    \/ PreloadAddState

SpecPreload == InitPreload /\ [][NextPreload]_vars

(***************************************************************************)
(* The actors together: each actor's workers share cells with each other    *)
(* and with no other actor, so a run starts one actor.                      *)
(***************************************************************************)
InitActors ==
    \/ InitAccounts
    \/ InitBlockState
    \/ InitPreload

NextActors ==
    \/ NextAccounts
    \/ NextBlockState
    \/ NextPreload

SpecActors == InitActors /\ [][NextActors]_vars

(***************************************************************************)
(* C12  Nonce monitor.                                                      *)
(***************************************************************************)
\* The monitor has just handled the sender of a transaction whose sender is tracked.
SenderHandled == acct_log.worker = "monitor" /\ acct_log.op = "from"

\* The monitor has just handled the recipient of a transaction whose recipient is tracked.
RecipientHandled == acct_log.worker = "monitor" /\ acct_log.op = "to"

\* C12: once the monitor has handled a transaction of a confirmed block whose sender is
\* tracked, the sender's nonce is the transaction's nonce and, when the transaction names
\* its fees, the sender's balance is lower by (max_fee_per_gas + max_priority_fee_per_gas)
\* * gas + value; once it has handled a tracked recipient, the recipient's balance is
\* higher by the value.
C12_NonceMonitor ==
    /\ SenderHandled =>
          /\ accounts_state[acct_log.tx.from].nonce = acct_log.tx.nonce
          /\ fees_unwrap(acct_log.tx) =>
                accounts_state[acct_log.tx.from].balance
                    = acct_log.pre[acct_log.tx.from].balance - spent(acct_log.tx)
    /\ RecipientHandled =>
          accounts_state[acct_log.tx.to[1]].balance
              = acct_log.pre[acct_log.tx.to[1]].balance + acct_log.tx.value

(***************************************************************************)
(* C13  Graceful shutdown.                                                  *)
(***************************************************************************)
\* What the worker's last recv() returned.
LastRecv(w) == IF w = "monitor" THEN mon.msg ELSE bsw.msg

\* C13: a worker whose recv() has returned the closed error has left its receive loop and
\* ended; this is stated of the block state worker and of the nonce monitor.
C13_GracefulShutdown ==
    \A w \in {"block_state", "monitor"} :
        LastRecv(w) = Some(Err("Closed")) => pc[w] \in {"returned", "not_started"}

(***************************************************************************)
(* C14  Write guards only for the mutation.                                 *)
(***************************************************************************)
\* The statements at which a worker awaits an answer of the provider.
RpcCalls == {"get_code_at", "get_transaction_count", "get_balance"}

\* C14: a worker that awaits a provider call (get_code_at, get_transaction_count,
\* get_balance) holds no write guard on a shared cell.
C14_NoRpcUnderWriteGuard ==
    \A w \in Workers :
        pc[w] \in RpcCalls => \A g \in held_by(w) : g.mode # "write"

(***************************************************************************)
(* C15  No write lock while holding another lock.                           *)
(***************************************************************************)
\* C15: whenever a worker takes a write guard on a shared cell, it holds no guard, read or
\* write, on a different shared cell.
C15_NoWriteWhileHolding ==
    (lock_log.worker # "none" /\ lock_log.mode = "write")
        => \A g \in lock_log.held : g.cell = lock_log.cell

(***************************************************************************)
(* C16  Lock order.                                                         *)
(***************************************************************************)
\* The place of the four cells in the order Market, MarketState, BlockHistory, Nonce.
LockRank == [Market |-> 1, MarketState |-> 2, BlockHistory |-> 3, Nonce |-> 4]

\* C16: whenever a worker takes a guard on one of the cells Market, MarketState,
\* BlockHistory, Nonce, none of the guards it holds is on a cell that comes later in the
\* order Market, MarketState, BlockHistory, Nonce.
C16_LockOrder ==
    (lock_log.worker # "none" /\ lock_log.cell \in DOMAIN LockRank)
        => \A g \in lock_log.held :
              g.cell \in DOMAIN LockRank => LockRank[g.cell] <= LockRank[lock_log.cell]

\* The monitor has taken the write guard on the nonce cell while holding its read guard on
\* BlockHistory.
C16_Witness ==
    /\ lock_log.worker = "monitor"
    /\ lock_log.cell = "Nonce"
    /\ lock_log.mode = "write"
    /\ Guard("monitor", "BlockHistory", "read") \in lock_log.held

(***************************************************************************)
(* C17  Block state fetcher.                                                *)
(***************************************************************************)
\* The traces whose update has been sent: all that succeeded, but the last while the worker
\* is about to send it.
TracesSent ==
    IF pc["block_state"] = "send" THEN SubSeq(traced, 1, Len(traced) - 1) ELSE traced

\* C17: the updates the worker has sent are, in the order of reception, exactly one for each
\* received block hash whose trace succeeded, each with that block hash and the state after
\* the block as the trace gave it.
C17_BlockStateFetcher ==
    /\ Len(published) = Len(TracesSent)
    /\ \A i \in 1..Len(published) :
          /\ published[i].update.block_hash = TracesSent[i].block_hash
          /\ published[i].update.state_update = TracesSent[i].trace[2].post

\* Two hashes have been received, both traces have succeeded with different states, and
\* both updates have been sent.
C17_Witness ==
    /\ Len(published) = 2
    /\ pc["block_state"] = "recv"
    /\ published[1].update.block_hash # published[2].update.block_hash
    /\ published[1].update.state_update # published[2].update.state_update

(***************************************************************************)
(* C18  Preloader result.                                                   *)
(***************************************************************************)
\* The account is in the mirror with the balance and the nonce the provider answered.
SignerLoaded(a) ==
    /\ a \in DOMAIN state_db.accounts
    /\ << "get_balance", a >> \in DOMAIN pre.answers
    /\ << "get_transaction_count", a >> \in DOMAIN pre.answers
    /\ state_db.accounts[a].info.balance = pre.answers[<< "get_balance", a >>]
    /\ state_db.accounts[a].info.nonce = pre.answers[<< "get_transaction_count", a >>]

\* C18: when preload_market_state has returned Ok, the mirror holds the quoter with its
\* code, the multicaller with the code the provider answered, and every signer of TxSigners
\* with the balance and the nonce the provider answered.
C18_PreloaderResult ==
    pre.result = Some("Ok") =>
        /\ \A a \in DOMAIN QuoterState :
              /\ a \in DOMAIN state_db.accounts
              /\ state_db.accounts[a].info.code = QuoterState[a].code
        /\ PreloadAddresses.multicaller \in DOMAIN state_db.accounts
        /\ state_db.accounts[PreloadAddresses.multicaller].info.code
              = Some(pre.answers[<< "get_code_at", PreloadAddresses.multicaller >>])
        /\ \A i \in 1..Len(signers) : SignerLoaded(signers[i].address)

(***************************************************************************)
(* C19  Preloader failure is fatal.                                         *)
(***************************************************************************)
\* C19: when a step of the preload has failed (the provider call for the multicaller code,
\* for a signer's nonce or balance, or the retrieval of a signer by its index), start does
\* not return Ok.
C19_PreloadFailureFatal == pre.failures # {} => pre.result # Some("Ok")

(***************************************************************************)
(* C27  A block update that arrives before the block.                       *)
(***************************************************************************)
\* C27: when the monitor waits for the next event with none pending, every block update
\* it has received whose block is in BlockHistory with its transactions has had these
\* transactions found and applied: an update received before the block was there has
\* been kept until the block was there.
C27_OutOfOrderTolerance ==
    (pc["monitor"] = "recv" /\ market_events.queue = << >>) =>
        \A block_hash \in BlockHashes :
            (/\ << block_hash, "missing" >> \in mon.looked_up
             /\ full_transactions(block_history, block_hash) # None)
                => << block_hash, "found" >> \in mon.looked_up

(***************************************************************************)
(* C28  The monitor does not panic on a confirmed block.                    *)
(***************************************************************************)
\* C28: the monitor's task never ends by a panic: whatever the transactions of a block,
\* those without max_fee_per_gas or max_priority_fee_per_gas included, the worker goes
\* through all of them and waits for the next event.
C28_MonitorNeverPanics == pc["monitor"] # "panicked"

(***************************************************************************)
(* C29  The block state worker survives failures.                           *)
(***************************************************************************)
\* The receptions whose trace succeeded and whose send has been called.
TracedAndSent ==
    LET ok == SelectSeq(bsw.log, LAMBDA r : is_ok(r.trace_result))
    IN  IF pc["block_state"] = "send" THEN SubSeq(ok, 1, Len(ok) - 1) ELSE ok

\* C29: the worker never leaves its loop; the updates it has sent are, in order, those of
\* the received hashes whose trace succeeded, so a failed trace sends nothing for its hash
\* and a failed trace or a failed send before a hash does not change what is sent for it;
\* and when it waits with no hash pending, every hash it received has been traced.
C29_BlockStateSurvives ==
    /\ pc["block_state"] \in {"recv", "debug_trace_block", "send"}
    /\ Len(published) = Len(TracedAndSent)
    /\ \A i \in 1..Len(published) :
          published[i].update =
              BlockStateUpdate(TracedAndSent[i].block_hash, TracedAndSent[i].trace_result[2].post)
    /\ pc["block_state"] = "recv" => Len(bsw.log) = bsw.received

\* The trace of the first hash has failed, the send for the second has failed, and the
\* update of the third has been sent.
C29_Witness ==
    /\ bsw.received = 3
    /\ pc["block_state"] = "recv"
    /\ ~is_ok(bsw.log[1].trace_result)
    /\ Len(published) = 2
    /\ ~is_ok(published[1].answer)
    /\ is_ok(published[2].answer)
    /\ published[2].update.block_hash = bsw.log[3].block_hash

(***************************************************************************)
(* C30  The fetcher's handling of errors.                                   *)
(***************************************************************************)
\* C30: when the fetcher has written what it fetched for an address, the nonce of the
\* address is the answer to the nonce request if that is Ok and what it was otherwise, its
\* ETH balance is the answer to the balance request if that is Ok and what it was
\* otherwise, and every other address is as it was; an address that is no longer in the
\* state is not added; and the fetcher's task never ends.
C30_FetcherErrors ==
    /\ pc["fetcher"] \in {"read_accounts", "next_account", "get_transaction_count",
                          "get_balance", "write_account"}
    /\ acct_log.worker = "fetcher" =>
          LET a == acct_log.address
              before == acct_log.pre
          IN  /\ DOMAIN accounts_state = DOMAIN before
              /\ \A other \in DOMAIN before \ {a} : accounts_state[other] = before[other]
              /\ a \in DOMAIN before =>
                    /\ accounts_state[a].nonce =
                          IF is_ok(acct_log.nonce) THEN acct_log.nonce[2] ELSE before[a].nonce
                    /\ accounts_state[a].balance =
                          IF is_ok(acct_log.balance) THEN acct_log.balance[2]
                          ELSE before[a].balance

\* The fetcher has stored a balance whose nonce request failed, for the first address; and
\* it has skipped the second address, removed since the fetcher read the addresses.
C30_Witness ==
    /\ acct_log.worker = "fetcher"
    /\ acct_log.address = 2
    /\ 2 \notin DOMAIN accounts_state
    /\ accounts_state[1].balance = 500
    /\ accounts_state[1].nonce # 7
    /\ pc["fetcher"] = "next_account"

(***************************************************************************)
(* C31  No stale overwrite between the fetcher and the monitor.             *)
(***************************************************************************)
\* C31: when the fetcher stores an answer of the provider for an address, the nonce
\* (balance) the state holds for the address is still the one it held when that answer
\* came: the monitor has not set it from a block in between, so no value of the monitor
\* is replaced by an older answer.
C31_NoStaleOverwrite ==
    acct_log.worker = "fetcher" =>
        /\ is_ok(acct_log.nonce) => "nonce" \notin acct_log.changed_since
        /\ is_ok(acct_log.balance) => "balance" \notin acct_log.changed_since

(***************************************************************************)
(* C32  Deadlock freedom of the account workers.                            *)
(***************************************************************************)
\* The worker is at a statement that asks for a guard (the fetcher that has run all the
\* rounds looked at asks for nothing more).
AtGuardRequest(w) ==
    IF w = "fetcher"
    THEN \/ pc[w] = "read_accounts" /\ fet.rounds < MaxRounds
         \/ pc[w] = "write_account"
    ELSE pc[w] \in {"read_history", "check_from", "write_from", "check_to", "write_to"}

\* C32: with the fetcher and the monitor running on the same cells, in every interleaving
\* neither worker stays for ever at a statement that asks for a read or write guard: each
\* guard asked for is eventually granted and the worker goes on; and the read guard the
\* monitor holds on BlockHistory through a block is always dropped again.
C32_DeadlockFreedom ==
    /\ []<>(~AtGuardRequest("fetcher"))
    /\ []<>(~AtGuardRequest("monitor"))
    /\ []<>(Guard("monitor", "BlockHistory", "read") \notin guards)

\* The fetcher has been granted the write guard of the accounts while the monitor, in the
\* middle of a block and holding its read guard on BlockHistory, asks for the same guard.
C32_Witness ==
    /\ lock_log = acquired("fetcher", "Nonce", "write")
    /\ pc["fetcher"] = "next_account"
    /\ pc["monitor"] = "write_from"
    /\ Guard("monitor", "BlockHistory", "read") \in guards

(***************************************************************************)
(* C35  Missing diff fields reset the account info.                         *)
(***************************************************************************)
\* C35: when a single-record apply_state_update applies the info of an account (the
\* flags and the marker say so) and the diff entry carries no balance, the stored balance
\* is 0 whatever it was; and when the entry carries no nonce, the stored nonce is 0.
C35_MissingFieldsReset ==
    LastIsSingleRecordApply =>
        \A a \in DOMAIN last.args.update_vec[1] :
            LET e == last.args.update_vec[1][a]
            IN  MatrixApplies(AccountView(last.pre, a).account_state,
                              last.args.insert, last.args.only_new) =>
                    /\ e.balance = None => InfoView(state_db, a).balance = 0
                    /\ e.nonce = None => InfoView(state_db, a).nonce = 0

\* An account with a balance other than 0 had an entry without balance applied, and one
\* with a nonce other than 0 an entry without nonce, in one call; both are 0 now.
C35_Witness ==
    /\ LastIsSingleRecordApply
    /\ \E a \in DOMAIN last.args.update_vec[1] :
          /\ last.args.update_vec[1][a].balance = None
          /\ InfoView(last.pre, a).balance # 0
          /\ InfoView(state_db, a).balance = 0
    /\ \E a \in DOMAIN last.args.update_vec[1] :
          /\ last.args.update_vec[1][a].nonce = None
          /\ InfoView(last.pre, a).nonce # 0
          /\ InfoView(state_db, a).nonce = 0

(***************************************************************************)
(* C36  The first record wins under only_new.                               *)
(***************************************************************************)
\* The entry of the first record of the vector that names the account.
FirstEntry(update_vec, a) ==
    update_vec[MinKey({ i \in 1..Len(update_vec) : a \in DOMAIN update_vec[i] })][a]

\* C36: after one apply_state_update with insert unset and only_new set whose vector has
\* several records, an account the vector names that was absent from the database has the
\* balance, nonce and code of the first record that names it, and each of its slots has
\* the value of the first record that mentions the slot: later records have added only
\* slots that no earlier record gave.
C36_FirstRecordWins ==
    (LastIsApply /\ ~last.args.insert /\ last.args.only_new
        /\ Len(last.args.update_vec) > 1) =>
        \A a \in NamedAccounts(last.args.update_vec) :
            a \notin DOMAIN last.pre.accounts =>
                /\ InfoView(state_db, a) =
                      InfoFromDiff(InfoView(last.pre, a), FirstEntry(last.args.update_vec, a))
                /\ \A s \in Slots :
                      SlotView(state_db, a, s) = FirstValue(last.args.update_vec, a, s)

\* Two records named an absent account with different balances and different values of
\* slot 1, the second with one slot more: the balance and slot 1 are the first record's,
\* the other slot is the second record's.
C36_Witness ==
    /\ LastIsApply /\ ~last.args.insert /\ last.args.only_new
    /\ last.args.update_vec = << 1 :> S1Start, 1 :> S1Diff >>
    /\ 1 \notin DOMAIN last.pre.accounts
    /\ InfoView(state_db, 1).balance = 100
    /\ SlotView(state_db, 1, 1) = Some(10)
    /\ SlotView(state_db, 1, 2) = Some(30)

(***************************************************************************)
(* C37  The frame of merge_db.                                              *)
(***************************************************************************)
\* The slot occurs in the database for the account.
OccursIn(db, a, s) == a \in DOMAIN db.accounts /\ s \in DOMAIN db.accounts[a].storage

\* C37: after merge_db(other), every account that was present locally is still present
\* with the balance, nonce, code and code hash it had; every slot that was present is
\* still present; and every slot that does not occur in other is as it was, present with
\* its value or absent.
C37_MergeDbFrame ==
    last.op = "merge_db" =>
        /\ \A a \in DOMAIN last.pre.accounts :
              /\ a \in DOMAIN state_db.accounts
              /\ state_db.accounts[a].info = last.pre.accounts[a].info
              /\ DOMAIN last.pre.accounts[a].storage \subseteq DOMAIN state_db.accounts[a].storage
        /\ \A a \in Addrs, s \in Slots :
              ~OccursIn(last.args.other, a, s) =>
                  SlotView(state_db, a, s) = SlotView(last.pre, a, s)

\* merge_db met a local account whose info differs from other's and which has a slot that
\* other lacks, and it wrote a slot of other into it.
C37_Witness ==
    /\ last.op = "merge_db"
    /\ \E a \in DOMAIN last.pre.accounts \cap DOMAIN last.args.other.accounts :
          /\ last.args.other.accounts[a].info # last.pre.accounts[a].info
          /\ \E s \in Slots : OccursIn(last.pre, a, s) /\ ~OccursIn(last.args.other, a, s)
          /\ \E s \in Slots :
                /\ OccursIn(last.args.other, a, s)
                /\ SlotView(state_db, a, s) # SlotView(last.pre, a, s)

(***************************************************************************)
(* C38  add_state overwrites wholesale and is idempotent.                   *)
(***************************************************************************)
\* C38: after add_state(state), every account of the state has the balance and nonce of
\* its entry, 0 where the entry has none, and the code of its entry, none where the entry
\* has none, whatever the length of the code; every slot of the entry has the entry's
\* value and every other slot is as it was; the call has returned Ok; and add_state of the
\* same state once more gives the same database.
C38_AddStateOverwrites ==
    last.op = "add_state" =>
        /\ \A a \in DOMAIN last.args.state :
              LET e == last.args.state[a]
              IN  /\ InfoView(state_db, a) =
                        [balance |-> IF e.balance = None THEN 0 ELSE e.balance[1],
                         nonce |-> IF e.nonce = None THEN 0 ELSE e.nonce[1],
                         code |-> e.code]
                  /\ \A s \in DOMAIN e.storage : SlotView(state_db, a, s) = Some(e.storage[s])
                  /\ \A s \in Slots \ DOMAIN e.storage :
                        SlotView(state_db, a, s) = SlotView(last.pre, a, s)
        /\ last.returned = Ok(<< >>)
        /\ add_state(state_db, last.args.state) = state_db

\* add_state met an account with a balance, code of two bytes and a slot the entry lacks:
\* the entry has no balance and code of one byte; the balance is 0, the code is the
\* entry's, the slot is kept and the entry's slot is written.
C38_Witness ==
    /\ last.op = "add_state"
    /\ \E a \in DOMAIN last.args.state \cap DOMAIN last.pre.accounts :
          LET e == last.args.state[a]
              old == last.pre.accounts[a]
          IN  /\ e.balance = None /\ old.info.balance # 0
              /\ e.code # None /\ Len(e.code[1]) < 2
              /\ old.info.code # None /\ old.info.code # e.code
              /\ InfoView(state_db, a).code = e.code
              /\ \E s \in DOMAIN old.storage \ DOMAIN e.storage :
                    SlotView(state_db, a, s) = Some(old.storage[s])
              /\ \E s \in DOMAIN e.storage \ DOMAIN old.storage :
                    SlotView(state_db, a, s) = Some(e.storage[s])

(***************************************************************************)
(* C24  The marker after apply_state_update.                                *)
(***************************************************************************)
\* C24: after apply_state_update, under any flags, every account the update names is
\* present in the database and its marker is Touched.
C24_MarkerAfterApply ==
    LastIsApply =>
        \A a \in NamedAccounts(last.args.update_vec) :
            /\ is_account(state_db, a)
            /\ state_db.accounts[a].account_state = "Touched"

\* With both flags unset the update named an account that was absent and one whose
\* storage had been cleared: the absent one's info was skipped, and both are Touched.
C24_Witness ==
    /\ LastIsApply
    /\ ~last.args.insert
    /\ ~last.args.only_new
    /\ NamedAccounts(last.args.update_vec) = {1, 2}
    /\ ~is_account(last.pre, 2)
    /\ is_account(last.pre, 1)
    /\ last.pre.accounts[1].account_state = "StorageCleared"
    /\ state_db.accounts[2].info = AccountInfoDefault
    /\ state_db.accounts[1].account_state = "Touched"
    /\ state_db.accounts[2].account_state = "Touched"

(***************************************************************************)
(* C25  Marker promotion on storage insert.                                 *)
(***************************************************************************)
\* C25: no account of the database has marker NotExisting and holds storage slots: an
\* operation that inserts a slot on an account with marker NotExisting leaves it Touched.
C25_MarkerPromotion ==
    \A a \in DOMAIN state_db.accounts :
        state_db.accounts[a].account_state = "NotExisting" =>
            DOMAIN state_db.accounts[a].storage = {}

(***************************************************************************)
(* C26  apply_state_update is infallible.                                   *)
(***************************************************************************)
\* C26: apply_state_update returns normally, whatever the database, the update and the
\* flags, and every account of every record of the update has been processed: it is in
\* the database.
C26_ApplyInfallible ==
    LastIsApply =>
        /\ last.returned
        /\ \A a \in NamedAccounts(last.args.update_vec) : is_account(state_db, a)

\* apply_state_update has returned, with insert unset, for an update that names an
\* account the database did not hold, with an entry for it that has no balance.
C26_Witness ==
    /\ LastIsApply
    /\ last.returned
    /\ ~last.args.insert
    /\ \E a \in NamedAccounts(last.args.update_vec) :
          /\ ~is_account(last.pre, a)
          /\ \E i \in 1..Len(last.args.update_vec) :
                /\ a \in DOMAIN last.args.update_vec[i]
                /\ last.args.update_vec[i][a].balance = None
                /\ last.args.update_vec[i][a].code # None

(***************************************************************************)
(* start_loom (bin/loom_exex, loom.rs) and the protocol pool loader         *)
(* (crates/defi-actors, protocol_pool_worker.rs) it starts.  A string is    *)
(* the sequence of its characters, an address the sequence of its bytes.    *)
(***************************************************************************)
\* The value of a hexadecimal digit, None for any other character.
hex_value(c) ==
    LET digits == << "0", "1", "2", "3", "4", "5", "6", "7", "8", "9",
                     "a", "b", "c", "d", "e", "f", "A", "B", "C", "D", "E", "F" >>
    IN  IF \E i \in DOMAIN digits : digits[i] = c
        THEN LET i == CHOOSE k \in DOMAIN digits : digits[k] = c
             IN  Some(IF i <= 16 THEN i - 1 ELSE i - 7)
        ELSE None

\* A parse that pads a string of too few digits with zeros on the left.
parse_address_padded(str) ==
    LET stripped == IF Len(str) >= 2 /\ str[1] = "0" /\ str[2] = "x"
                    THEN SubSeq(str, 3, Len(str)) ELSE str
        digits == [i \in 1..(40 - Len(stripped)) |-> "0"] \o stripped
    IN  IF Len(stripped) <= 40 /\ \A i \in DOMAIN stripped : hex_value(stripped[i]) # None
        THEN Some([i \in 1..20 |->
                     16 * hex_value(digits[2 * i - 1])[1] + hex_value(digits[2 * i])[1]])
        ELSE None

\* str.parse::<Address>().ok(): forty hexadecimal digits, with or without "0x" before
\* them, give the twenty bytes they stand for.
parse_address(str) ==
    LET digits == IF Len(str) >= 2 /\ str[1] = "0" /\ str[2] = "x"
                  THEN SubSeq(str, 3, Len(str)) ELSE str
    IN  IF Len(digits) = 40 /\ \A i \in DOMAIN digits : hex_value(digits[i]) # None
        THEN Some([i \in 1..20 |->
                     16 * hex_value(digits[2 * i - 1])[1] + hex_value(digits[2 * i])[1]])
        ELSE None

\* TopologyConfig: the encoders section holds no, one or two entries, each an
\* EncoderConfig::SwapStep with an address string: a lower-case address with the prefix,
\* the same address in upper case without it, one digit too few, a character that is no
\* hexadecimal digit, or the empty string.
TopologyConfigs ==
    LET lower == [i \in 1..40 |-> IF i % 2 = 1 THEN "a" ELSE "1"]
        upper == [i \in 1..40 |-> IF i % 2 = 1 THEN "A" ELSE "1"]
        strings == { << "0", "x" >> \o lower,
                     upper,
                     << "0", "x" >> \o SubSeq(lower, 1, 39),
                     << "0", "x" >> \o SubSeq(lower, 1, 39) \o << "g" >>,
                     << >> }
        configs == { [SwapStep |-> [address |-> str]] : str \in strings }
        names == {"multicaller", "second"}
    IN  [encoders : UNION { [ns -> configs] : ns \in SUBSET names }, influxdb : BOOLEAN]

\* The actors start_loom adds to BlockchainActors for a topology, in the order of the
\* calls; the last two when the topology has an influxdb section.
actors_of(config) ==
    << "mempool", "block_history", "price_station", "health_monitor_pools",
       "health_monitor_state", "health_monitor_stuffing_tx", "swap_encoder",
       "evm_estimator", "signers", "flashbots_broadcaster", "market_state_preloader",
       "nonce_and_balance_monitor", "pool_history_loader", "pool_protocol_loader",
       "new_pool_loader", "swap_path_merger", "diff_path_merger", "same_path_merger",
       "backrun_block", "backrun_mempool" >>
    \o (IF config.influxdb THEN << "influxdb_writer", "block_latency_recorder" >>
        ELSE << >>)

\* The pools the protocol loader is to load, with their addresses.
ProtocolPools ==
    [StEthPool |-> 20, WStEthPool |-> 21, RocketEthPool |-> 22, CurvePool |-> 23]

LoomLocals(at, encoder, multicaller_address, constructed, actors, result) ==
    [pc |-> at, encoder |-> encoder, multicaller_address |-> multicaller_address,
     constructed |-> constructed, actors |-> actors, result |-> result]

\* start_loom(provider, bc, topology_config) is called; the loader actor, when it is
\* built, has its two accessors set or not.
InitLoom ==
    /\ topology \in TopologyConfigs
    /\ loom = LoomLocals("get_chain_id", None, None, FALSE, << >>, None)
    /\ market = {}
    /\ loader \in [market : {None, Some("Market")},
                   market_state : {None, Some("MarketState")},
                   task : {"none"}, result : {None}]
    /\ MsIdle
    /\ SimIdle
    /\ PoolIdle
    /\ NoWorkers
    /\ AcctIdle
    /\ BsIdle
    /\ PreIdle
    /\ BenchIdle

\* let chain_id = provider.get_chain_id().await?;
LoomGetChainId ==
    /\ loom.pc = "get_chain_id"
    /\ \E answer \in {Ok(1), Err("rpc")} :
          loom' = IF is_ok(answer)
                  THEN [loom EXCEPT !.pc = "encoder"]
                  ELSE [loom EXCEPT !.pc = "returned", !.result = Some(answer)]
    /\ UNCHANGED << topology, market, loader >>
    /\ UNCHANGED notLoom

\* topology_config.encoders.iter().next().ok_or_eyre("NO_ENCODER")?: the first entry the
\* HashMap's iterator yields, which is any of its entries.
LoomFirstEncoder ==
    /\ loom.pc = "encoder"
    /\ IF DOMAIN topology.encoders = {}
       THEN loom' = [loom EXCEPT !.pc = "returned", !.result = Some(Err("NO_ENCODER"))]
       ELSE \E name \in DOMAIN topology.encoders :
               loom' = [loom EXCEPT !.pc = "multicaller_address", !.encoder = Some(name)]
    /\ UNCHANGED << topology, market, loader >>
    /\ UNCHANGED notLoom

\* match encoder { SwapStep(e) => e.address.parse().ok() }, then
\* ok_or_eyre("MULTICALLER_ADDRESS_NOT_SET")?.
LoomMulticallerAddress ==
    /\ loom.pc = "multicaller_address"
    /\ LET encoder == topology.encoders[loom.encoder[1]]
           multicaller_address == parse_address(encoder.SwapStep.address)
       IN  loom' = IF multicaller_address = None
                   THEN [loom EXCEPT !.pc = "returned",
                                     !.result = Some(Err("MULTICALLER_ADDRESS_NOT_SET"))]
                   ELSE [loom EXCEPT !.pc = "new_actors",
                                     !.multicaller_address = multicaller_address]
    /\ UNCHANGED << topology, market, loader >>
    /\ UNCHANGED notLoom

\* BlockchainActors::new(provider.clone(), bc.clone(), relays).
LoomNewActors ==
    /\ loom.pc = "new_actors"
    /\ loom' = [loom EXCEPT !.pc = "start_actors", !.constructed = TRUE]
    /\ UNCHANGED << topology, market, loader >>
    /\ UNCHANGED notLoom

\* ProtocolPoolLoaderActor::start: the two accessors are unwrapped and the worker is
\* spawned.
loader_start(l) ==
    IF l.market = None \/ l.market_state = None
    THEN [l EXCEPT !.task = "panicked"]
    ELSE [l EXCEPT !.task = "spawned"]

\* bc_actors.with_...()?: the next actor is started, or its start fails and start_loom
\* returns the error.
LoomStartActor ==
    /\ loom.pc = "start_actors"
    /\ Len(loom.actors) < Len(actors_of(topology))
    /\ LET actor == actors_of(topology)[Len(loom.actors) + 1]
           started == [loom EXCEPT !.actors = Append(@, actor)]
       IN  \/ /\ actor # "pool_protocol_loader"
              /\ loom' = started
              /\ UNCHANGED loader
           \/ /\ actor = "pool_protocol_loader"
              /\ loader' = loader_start(loader)
              /\ loom' = IF loader'.task = "panicked"
                         THEN [loom EXCEPT !.pc = "panicked"]
                         ELSE started
           \/ /\ loom' = [loom EXCEPT !.pc = "returned", !.result = Some(Err(actor))]
              /\ UNCHANGED loader
    /\ UNCHANGED << topology, market >>
    /\ UNCHANGED notLoom

\* bc_actors.wait().await; Ok(()): wait returns once every task of every actor has ended,
\* the loader's task among them.
LoomWait ==
    /\ loom.pc = "start_actors"
    /\ Len(loom.actors) = Len(actors_of(topology))
    /\ loader.task = "done"
    /\ loom' = [loom EXCEPT !.pc = "returned", !.result = Some(Ok("()"))]
    /\ UNCHANGED << topology, market, loader >>
    /\ UNCHANGED notLoom

\* curve_protocol_loader_worker(client, market, market_state): the body returns its name.
curve_protocol_loader_worker(m, db) ==
    [market |-> m, state_db |-> db, result |-> Ok("curve_protocol_loader_worker")]

\* The spawned task runs.
ProtocolLoaderWorker ==
    /\ loader.task = "spawned"
    /\ LET done == curve_protocol_loader_worker(market, state_db)
       IN  /\ market' = done.market
           /\ state_db' = done.state_db
           /\ loader' = [loader EXCEPT !.task = "done", !.result = Some(done.result)]
    /\ UNCHANGED << topology, loom >>
    /\ UNCHANGED << force_insert_accounts, read_only_cells, last, steps, simVars, poolVars,
                    lockVars, acctVars, bsVars, preVars, benchVars >>

NextLoom ==
    \/ LoomGetChainId
    \/ LoomFirstEncoder
    \/ LoomMulticallerAddress
    \/ LoomNewActors
    \/ LoomStartActor
    \/ LoomWait
    \/ ProtocolLoaderWorker

SpecLoom == InitLoom /\ [][NextLoom]_vars

(***************************************************************************)
(* C22  What the protocol loader has loaded when it completes.              *)
(***************************************************************************)
\* C22: when the protocol pool loader worker has completed, every pool it is to load (the
\* Lido stETH and wstETH pools, the rETH pool, the pools of the Curve registries) is
\* registered in Market and has its account in MarketState's database.
C22_ProtocolLoaderLoads ==
    loader.task = "done" =>
        \A pool \in DOMAIN ProtocolPools :
            /\ ProtocolPools[pool] \in market
            /\ is_account(state_db, ProtocolPools[pool])

(***************************************************************************)
(* C23  Init errors of start_loom.                                          *)
(***************************************************************************)
\* The string is forty hexadecimal digits, with or without "0x" before them.
IsAddressString(str) ==
    LET hex == {"0", "1", "2", "3", "4", "5", "6", "7", "8", "9",
                "a", "b", "c", "d", "e", "f", "A", "B", "C", "D", "E", "F"}
    IN  \/ Len(str) = 40 /\ \A i \in 1..40 : str[i] \in hex
        \/ Len(str) = 42 /\ str[1] = "0" /\ str[2] = "x" /\ \A i \in 3..42 : str[i] \in hex

NoEncoder == DOMAIN topology.encoders = {}

\* The encoder start_loom took has an address string that is no address.
BadMulticallerAddress ==
    /\ loom.encoder # None
    /\ ~IsAddressString(topology.encoders[loom.encoder[1]].SwapStep.address)

\* C23: with no encoder entry, or with an encoder whose address string is no address,
\* start_loom constructs no BlockchainActors, starts no actor and spawns no task; once it
\* is past the step that finds this, it has returned an error, which is NO_ENCODER or
\* MULTICALLER_ADDRESS_NOT_SET respectively.
C23_InitErrorsFatal ==
    /\ (NoEncoder \/ BadMulticallerAddress) =>
          /\ ~loom.constructed
          /\ loom.actors = << >>
          /\ loader.task = "none"
          /\ loom.pc \in {"get_chain_id", "encoder", "multicaller_address", "returned"}
          /\ loom.pc = "returned" => ~is_ok(loom.result[1])
    /\ (NoEncoder /\ loom.pc \notin {"get_chain_id", "encoder"}) =>
          loom.result \in {Some(Err("NO_ENCODER")), Some(Err("rpc"))}
    /\ (BadMulticallerAddress /\ loom.pc # "multicaller_address") =>
          loom.result = Some(Err("MULTICALLER_ADDRESS_NOT_SET"))

\* start_loom has returned MULTICALLER_ADDRESS_NOT_SET for a topology with two encoders,
\* one of which has an address string that parses.
C23_Witness ==
    /\ loom.pc = "returned"
    /\ loom.result = Some(Err("MULTICALLER_ADDRESS_NOT_SET"))
    /\ \E name \in DOMAIN topology.encoders :
          IsAddressString(topology.encoders[name].SwapStep.address)

(***************************************************************************)
(* The evaluation benchmarks (bin/loom_anvil/benches/benchmark.rs).         *)
(***************************************************************************)
\* The number of input amounts of a run (10000 in the source).
ITER_COUNT == 2

\* The number of rayon_run tasks that rayon_parallel_run spawns (3 in the source).
TASKS_COUNT == 2

\* The number of threads of the rayon pool (the CPUs of the machine less two).
NumThreads == 2

\* in_vec: in_amount + step * i for i in 0..ITER_COUNT, in units of the step (10^16),
\* in which in_amount (10^18) is 100.
in_vec == [i \in 1..ITER_COUNT |-> 100 + (i - 1)]

\* What fetch_data_and_pool returns, which is what main and test_flow run the benchmark
\* on: the UniswapV3Pool it fetched, wrapped, and the database to which it has added the
\* quoter's state and the state the pool requires.  (When a step of it fails it returns
\* an Err, the caller unwraps it, and no run begins.)
BenchPools == {"UniswapV3Pool"}

BenchStates == {"required_state"}

\* UniswapV3Pool::calculate_out_amount: the quote of the pool on the database, an error
\* when the database lacks the state the quote reads.
uniswap_v3_calculate_out_amount(state_db_given, in_amount) ==
    IF state_db_given = "required_state" THEN Ok(<< in_amount * 2, 21 >>)
    ELSE Err("revert")

\* A faulty calculate_out_amount: the pool's class does not implement the evaluation.
calculate_out_amount_not_implemented(pool, state_db_given, in_amount) ==
    Err("NOT_IMPLEMENTED")

\* Pool::calculate_out_amount: the out amount and the gas used, or an error.
calculate_out_amount(pool, state_db_given, in_amount) ==
    IF pool = "EmptyPool" THEN Err("NOT_IMPLEMENTED")
    ELSE uniswap_v3_calculate_out_amount(state_db_given, in_amount)

\* Pool::get_tokens: the default of the trait, which EmptyPool keeps, is the empty vector;
\* a UniswapV3Pool answers its two tokens.
get_tokens(pool) ==
    IF pool = "EmptyPool" THEN << >> ELSE << "token0", "token1" >>

\* A faulty channel: it has room for half of the values asked for.
channel_half(capacity) == [queue |-> << >>, capacity |-> capacity \div 2]

\* tokio::sync::mpsc::channel(capacity) and Sender::try_send: the value is queued unless
\* the channel is full.
channel(capacity) == [queue |-> << >>, capacity |-> capacity]

try_send(chan, value) ==
    IF Len(chan.queue) >= chan.capacity
    THEN [chan |-> chan, result |-> Err("Full")]
    ELSE [chan |-> [chan EXCEPT !.queue = Append(@, value)], result |-> Ok("sent")]

RayonTasks == 1..TASKS_COUNT

\* The place of an amount in in_vec.
IndexOf(in_amount) == CHOOSE i \in 1..ITER_COUNT : in_vec[i] = in_amount

\* The result channel of a run with its one sender, and what the closures have done: how
\* many results they have sent for each amount, the amounts they have finished with,
\* those they panicked on.
ResultChannel(chan, sender, sent, evaluated, panicked) ==
    [chan |-> chan, sender |-> sender, sent |-> sent, evaluated |-> evaluated,
     panicked |-> panicked]

\* rayon_parallel_run has built the thread pool and spawned its tasks; no task has run.
InitRayon ==
    /\ bench \in [run : {"rayon_parallel_run"}, pool : BenchPools, state_db : BenchStates,
                  joined : {0}, result : {None}]
    /\ requests = [t \in RayonTasks |-> [todo |-> {}, install |-> "not_spawned"]]
    /\ evaluators = {}
    /\ results = [t \in RayonTasks |->
                     ResultChannel(channel(0), "alive",
                                   [i \in 1..ITER_COUNT |-> 0], {}, {})]
    /\ collectors = [t \in RayonTasks |-> [pc |-> "start", counter |-> 0]]
    /\ MsIdle
    /\ SimIdle
    /\ PoolIdle
    /\ NoWorkers
    /\ AcctIdle
    /\ BsIdle
    /\ PreIdle
    /\ LoomIdle

\* rayon_run up to the spawn of the task that installs the parallel iterator.  tokens[1]
\* panics on a pool with fewer than two tokens: the run ends before anything is spawned,
\* and both ends of the result channel are dropped with it.
RayonRunStart(t) ==
    /\ collectors[t].pc = "start"
    /\ IF Len(get_tokens(bench.pool)) < 2
       THEN /\ results' = [results EXCEPT ![t].chan = channel(ITER_COUNT),
                                          ![t].sender = "dropped"]
            /\ collectors' = [collectors EXCEPT ![t].pc = "panicked"]
            /\ UNCHANGED requests
       ELSE /\ requests' = [requests EXCEPT
                               ![t] = [todo |-> { in_vec[i] : i \in 1..ITER_COUNT },
                                       install |-> "running"]]
            /\ results' = [results EXCEPT ![t].chan = channel(ITER_COUNT)]
            /\ collectors' = [collectors EXCEPT ![t].pc = "recv"]
    /\ UNCHANGED << bench, evaluators >>
    /\ UNCHANGED notBench

\* A closure of a run on one amount, running on a thread of the pool.
Closure(t, in_amount) == [task |-> t, in_amount |-> in_amount]

\* A thread of the pool takes an amount of a run's parallel iterator: there is an idle
\* thread when fewer closures are running than the pool has threads.  (The threads are
\* alike; the closures that are running are kept, not the threads they run on.)
RayonTake(t) ==
    /\ Cardinality(evaluators) < NumThreads
    /\ requests[t].install = "running"
    /\ \E in_amount \in requests[t].todo :
          /\ evaluators' = evaluators \cup {Closure(t, in_amount)}
          /\ requests' = [requests EXCEPT ![t].todo = @ \ {in_amount}]
    /\ UNCHANGED << bench, results, collectors >>
    /\ UNCHANGED notBench

\* The closure of for_each_with on one amount: calculate_out_amount(...).unwrap() and
\* try_send of the out amount.  A panic unwinds the sequential part of the iterator the
\* closure runs in, so amounts of that part that were not taken yet are never evaluated.
RayonEvaluate(closure) ==
    /\ closure \in evaluators
    /\ LET t == closure.task
           in_amount == closure.in_amount
           out_amount == calculate_out_amount(bench.pool, bench.state_db, in_amount)
       IN  IF is_ok(out_amount)
           THEN /\ LET sending == try_send(results[t].chan, out_amount[2][1])
                   IN  results' = [results EXCEPT
                          ![t].chan = sending.chan,
                          ![t].sent[IndexOf(in_amount)] =
                              IF is_ok(sending.result) THEN @ + 1 ELSE @,
                          ![t].evaluated = @ \cup {in_amount}]
                /\ UNCHANGED requests
           ELSE /\ results' = [results EXCEPT ![t].evaluated = @ \cup {in_amount},
                                              ![t].panicked = @ \cup {in_amount}]
                /\ \E unwound \in SUBSET requests[t].todo :
                      requests' = [requests EXCEPT ![t].todo = @ \ unwound]
    /\ evaluators' = evaluators \ {closure}
    /\ UNCHANGED << bench, collectors >>
    /\ UNCHANGED notBench

\* threadpool.install returns when every closure has ended, and drop(result_tx) follows;
\* when a closure panicked install resumes the panic in the spawned task, whose result_tx
\* is dropped with the task.
RayonInstallReturns(t) ==
    /\ requests[t].install = "running"
    /\ requests[t].todo = {}
    /\ \A closure \in evaluators : closure.task # t
    /\ requests' = [requests EXCEPT
                       ![t].install = IF results[t].panicked = {} THEN "returned"
                                      ELSE "panicked"]
    /\ results' = [results EXCEPT ![t].sender = "dropped"]
    /\ UNCHANGED << bench, evaluators, collectors >>
    /\ UNCHANGED notBench

\* while let Some(result) = result_rx.recv().await { counter += 1 }, and after the loop
\* the division by the counter and assert_eq!(counter, ITER_COUNT, "NOT_ALL_RESULTS").
RayonRecv(t) ==
    /\ collectors[t].pc = "recv"
    /\ IF results[t].chan.queue # << >>
       THEN /\ results' = [results EXCEPT ![t].chan.queue = Tail(@)]
            /\ collectors' = [collectors EXCEPT ![t].counter = @ + 1]
       ELSE /\ results[t].sender = "dropped"
            /\ UNCHANGED results
            /\ collectors' = [collectors EXCEPT
                                 ![t].pc = IF collectors[t].counter = ITER_COUNT
                                           THEN "done" ELSE "panicked"]
    /\ UNCHANGED << bench, requests, evaluators >>
    /\ UNCHANGED notBench

\* for t in tasks { match t.await { Ok(_) => {}, Err(_) => panic!("TASK_FAILED") } }: the
\* handles are awaited one at a time in the order the tasks were spawned; the handle of a
\* task that panicked answers Err and rayon_parallel_run panics, whatever the later tasks
\* are doing; after the last handle it returns.
RayonParallelJoin ==
    /\ bench.result = None
    /\ LET t == bench.joined + 1
       IN  /\ collectors[t].pc \in {"done", "panicked"}
           /\ bench' = IF collectors[t].pc = "panicked"
                       THEN [bench EXCEPT !.result = Some("TASK_FAILED")]
                       ELSE [bench EXCEPT !.joined = t,
                                          !.result = IF t = TASKS_COUNT
                                                     THEN Some("returned") ELSE None]
    /\ UNCHANGED << requests, evaluators, results, collectors >>
    /\ UNCHANGED notBench

NextRayon ==
    \/ \E t \in RayonTasks : RayonRunStart(t)
    \/ \E t \in RayonTasks : RayonTake(t)
    \/ \E t \in RayonTasks, in_amount \in { in_vec[i] : i \in 1..ITER_COUNT } :
          RayonEvaluate(Closure(t, in_amount))
    \/ \E t \in RayonTasks : RayonInstallReturns(t)
    \/ \E t \in RayonTasks : RayonRecv(t)
    \/ RayonParallelJoin

SpecRayon == InitRayon /\ [][NextRayon]_vars

(***************************************************************************)
(* C33  Parallel evaluation delivers every result.                          *)
(***************************************************************************)
\* The number of results sent for an amount.
TimesSent(t, in_amount) == results[t].sent[IndexOf(in_amount)]

\* C33: in every run of rayon_run, alone or beside other runs on the same thread pool,
\* no amount has two results sent; the result sender is dropped only when no amount is
\* left and no thread is evaluating one, and by then exactly one result has been sent for
\* each of the ITER_COUNT amounts; and the receiving loop ends with the count ITER_COUNT.
C33_RayonDeliversAll ==
    \A t \in RayonTasks :
        /\ \A i \in 1..ITER_COUNT : TimesSent(t, in_vec[i]) <= 1
        /\ results[t].sender = "dropped" =>
              /\ requests[t].todo = {}
              /\ \A closure \in evaluators : closure.task # t
              /\ \A i \in 1..ITER_COUNT : TimesSent(t, in_vec[i]) = 1
        /\ collectors[t].pc \notin {"start", "recv"} =>
              /\ collectors[t].pc = "done"
              /\ collectors[t].counter = ITER_COUNT

\* C33 witness: the first run has ended with the count ITER_COUNT, its sender dropped
\* after every amount had its result sent, while two threads of the shared pool are still
\* evaluating amounts of another run.
C33_Witness ==
    /\ collectors[1].pc = "done"
    /\ collectors[1].counter = ITER_COUNT
    /\ results[1].sender = "dropped"
    /\ \A i \in 1..ITER_COUNT : TimesSent(1, in_vec[i]) = 1
    /\ \E t \in RayonTasks \ {1} :
          Cardinality({ closure \in evaluators : closure.task = t }) = 2

(***************************************************************************)
(* tokio_run: a pool of workers on one shared request receiver.             *)
(***************************************************************************)
\* The number of workers of tokio_run (10 in the source).
WORKERS_COUNT == 2

TokioWorkers == 1..WORKERS_COUNT

\* The locals of a worker, the amounts it has taken and the terminators it has received.
TokioWorker(at, req, taken, terminators) ==
    [pc |-> at, req |-> req, taken |-> taken, terminators |-> terminators]

\* tokio_run has made the two channels, spawned the workers, each with a clone of the
\* Arc of the result sender, and dropped its own.
InitTokio ==
    /\ bench \in [run : {"tokio_run"}, pool : {"UniswapV3Pool"}, state_db : BenchStates,
                  result : {None}]
    /\ requests = [chan |-> channel(ITER_COUNT), guard |-> None]
    /\ evaluators = [w \in TokioWorkers |-> TokioWorker("write", None, << >>, 0)]
    /\ results = [chan |-> channel(ITER_COUNT), holders |-> TokioWorkers, sent |-> << >>]
    /\ collectors = [pc |-> "try_send", i |-> 1, terminators |-> 0, counter |-> 0]
    /\ MsIdle
    /\ SimIdle
    /\ PoolIdle
    /\ NoWorkers
    /\ AcctIdle
    /\ BsIdle
    /\ PreIdle
    /\ LoomIdle

\* for in_amount in in_vec { match request_tx.try_send(Some(..)) { Err(e) => println, .. } }
TokioSendRequest ==
    /\ collectors.pc = "try_send"
    /\ requests' = [requests EXCEPT
                       !.chan = try_send(requests.chan, Some(in_vec[collectors.i])).chan]
    /\ collectors' = [collectors EXCEPT
                         !.i = @ + 1,
                         !.pc = IF collectors.i = ITER_COUNT THEN "send" ELSE "try_send"]
    /\ UNCHANGED << bench, evaluators, results >>
    /\ UNCHANGED notBench

\* for w in 0..WORKERS_COUNT { request_tx.send(None).await }: send waits for room.
TokioSendNone ==
    /\ collectors.pc = "send"
    /\ is_ok(try_send(requests.chan, None).result)
    /\ requests' = [requests EXCEPT !.chan = try_send(requests.chan, None).chan]
    /\ collectors' = [collectors EXCEPT
                         !.terminators = @ + 1,
                         !.pc = IF collectors.terminators + 1 = WORKERS_COUNT
                                THEN "recv" ELSE "send"]
    /\ UNCHANGED << bench, evaluators, results >>
    /\ UNCHANGED notBench

\* let mut request_rx_guard = request_rx_clone.write().await;
TokioWorkerWrite(w) ==
    /\ evaluators[w].pc = "write"
    /\ requests.guard = None
    /\ requests' = [requests EXCEPT !.guard = Some(w)]
    /\ evaluators' = [evaluators EXCEPT ![w].pc = "recv"]
    /\ UNCHANGED << bench, results, collectors >>
    /\ UNCHANGED notBench

\* match request_rx_guard.recv().await under the guard: the guard is dropped when a
\* message has come; a request is kept for the evaluation, None drops the worker's
\* result_tx_ptr and ends the loop.  (The request sender outlives the workers, so recv
\* never answers that the channel is closed.)
TokioWorkerRecv(w) ==
    /\ evaluators[w].pc = "recv"
    /\ requests.guard = Some(w)
    /\ requests.chan.queue # << >>
    /\ requests' = [requests EXCEPT !.chan.queue = Tail(@), !.guard = None]
    /\ LET req == Head(requests.chan.queue)
       IN  IF req # None
           THEN /\ evaluators' = [evaluators EXCEPT
                                     ![w].pc = "calculate_out_amount",
                                     ![w].req = req,
                                     ![w].taken = Append(@, req[1])]
                /\ UNCHANGED results
           ELSE /\ evaluators' = [evaluators EXCEPT ![w].pc = "exited",
                                                    ![w].terminators = @ + 1]
                /\ results' = [results EXCEPT !.holders = @ \ {w}]
    /\ UNCHANGED << bench, collectors >>
    /\ UNCHANGED notBench

\* let out_amount = pool.calculate_out_amount(..).unwrap(); result_tx_ptr.try_send(..):
\* a panic ends the worker's task, and its result_tx_ptr is dropped with it.
TokioWorkerEvaluate(w) ==
    /\ evaluators[w].pc = "calculate_out_amount"
    /\ LET out_amount ==
               calculate_out_amount(bench.pool, bench.state_db, evaluators[w].req[1])
       IN  IF is_ok(out_amount)
           THEN /\ LET sending == try_send(results.chan, out_amount[2][1])
                   IN  results' = [results EXCEPT
                          !.chan = sending.chan,
                          !.sent = IF is_ok(sending.result)
                                   THEN Append(@, evaluators[w].req[1]) ELSE @]
                /\ evaluators' = [evaluators EXCEPT ![w].pc = "write", ![w].req = None]
           ELSE /\ results' = [results EXCEPT !.holders = @ \ {w}]
                /\ evaluators' = [evaluators EXCEPT ![w].pc = "panicked", ![w].req = None]
    /\ UNCHANGED << bench, requests, collectors >>
    /\ UNCHANGED notBench

\* while let Some(result) = result_rx.recv().await { counter += 1 }, and
\* assert_eq!(counter, ITER_COUNT, "NOT_ALL_RESULTS").
TokioCollect ==
    /\ collectors.pc = "recv"
    /\ IF results.chan.queue # << >>
       THEN /\ results' = [results EXCEPT !.chan.queue = Tail(@)]
            /\ collectors' = [collectors EXCEPT !.counter = @ + 1]
            /\ UNCHANGED bench
       ELSE /\ results.holders = {}
            /\ UNCHANGED results
            /\ collectors' = [collectors EXCEPT
                                 !.pc = IF collectors.counter = ITER_COUNT
                                        THEN "done" ELSE "panicked"]
            /\ bench' = [bench EXCEPT
                            !.result = IF collectors.counter = ITER_COUNT
                                       THEN Some("returned") ELSE Some("NOT_ALL_RESULTS")]
    /\ UNCHANGED << requests, evaluators >>
    /\ UNCHANGED notBench

NextTokio ==
    \/ TokioSendRequest
    \/ TokioSendNone
    \/ \E w \in TokioWorkers : TokioWorkerWrite(w)
    \/ \E w \in TokioWorkers : TokioWorkerRecv(w)
    \/ \E w \in TokioWorkers : TokioWorkerEvaluate(w)
    \/ TokioCollect

SpecTokio == InitTokio /\ [][NextTokio]_vars

(***************************************************************************)
(* C34  The worker-pool protocol of tokio_run.                              *)
(***************************************************************************)
\* The number of times the workers have taken an amount from the request channel.
TimesTaken(in_amount) ==
    Cardinality({ << w, i >> \in TokioWorkers \X (1..ITER_COUNT) :
                     i <= Len(evaluators[w].taken) /\ evaluators[w].taken[i] = in_amount })

\* C34: no request is taken by two workers and no worker receives two terminators; the
\* result channel closes (every clone of its sender is dropped) only when each of the
\* ITER_COUNT requests has been taken by exactly one worker and has had its result sent,
\* and every worker has received exactly one None and has left its loop; and the
\* collector ends with the count ITER_COUNT.
C34_TokioWorkerPool ==
    /\ \A i \in 1..ITER_COUNT : TimesTaken(in_vec[i]) <= 1
    /\ \A w \in TokioWorkers : evaluators[w].terminators <= 1
    /\ results.holders = {} =>
          /\ \A i \in 1..ITER_COUNT :
                /\ TimesTaken(in_vec[i]) = 1
                /\ \E j \in 1..Len(results.sent) : results.sent[j] = in_vec[i]
          /\ Len(results.sent) = ITER_COUNT
          /\ \A w \in TokioWorkers :
                evaluators[w].pc = "exited" /\ evaluators[w].terminators = 1
    /\ collectors.pc \in {"done", "panicked"} =>
          /\ collectors.pc = "done"
          /\ collectors.counter = ITER_COUNT

\* C34 witness: the collector has ended with the count ITER_COUNT, every worker has left
\* its loop on a None of its own, and the requests were shared out: no worker took them
\* all.
C34_Witness ==
    /\ collectors.pc = "done"
    /\ collectors.counter = ITER_COUNT
    /\ bench.result = Some("returned")
    /\ results.holders = {}
    /\ \A w \in TokioWorkers :
          /\ evaluators[w].pc = "exited"
          /\ evaluators[w].terminators = 1
          /\ Len(evaluators[w].taken) < ITER_COUNT

====
